---- MODULE Spec2Model ----
(***************************************************************************)
(* Model of the Krea image MCP server: the HTTP transport (KreaClient),    *)
(* the response-extraction helpers, the request builders and the two tool  *)
(* handlers krea_generate_image / krea_upscale_image with the job poller   *)
(* waitForJobCompletion.                                                   *)
(*                                                                         *)
(* Strings that the code inspects character by character (statuses, job    *)
(* ids, size strings, URLs) are sequences of one-character strings; all    *)
(* other strings are plain TLA+ strings.                                   *)
(***************************************************************************)
EXTENDS Integers, Sequences, FiniteSets, TLC

(***************************************************************************)
(* JavaScript / JSON values.  Every value is a record tagged with its      *)
(* typeof-like kind, so that values of different kinds compare unequal.    *)
(***************************************************************************)
Undef == [t |-> "undefined"]

JNull == [t |-> "null"]

JStr(s) == [t |-> "string", s |-> s]

\* The string that is the JSON serialisation of the value v.
JsonTextOf(v) == [t |-> "string", json |-> v]

JNum(n) == [t |-> "number", n |-> n]

JBool(b) == [t |-> "boolean", b |-> b]

\* o is a function from the object's own keys to values.
JObj(o) == [t |-> "object", o |-> o]

JArr(a) == [t |-> "array", a |-> a]

EmptyObject == JObj(<<>>)

IsString(v) == v.t = "string"

\* value && typeof value === "object"  (null is falsy, arrays are objects)
IsObjectLike(v) == v.t \in {"object", "array"}

\* JavaScript truthiness of the values the handlers test.
Truthy(v) ==
    CASE v.t \in {"undefined", "null"} -> FALSE
      [] v.t = "string" -> IF "s" \in DOMAIN v THEN Len(v.s) > 0 ELSE TRUE
      [] v.t = "number" -> v.n # 0
      [] v.t = "boolean" -> v.b
      [] OTHER -> TRUE

\* a ?? b
Nullish(a, b) == IF a.t \in {"undefined", "null"} THEN b ELSE a

(***************************************************************************)
(* Characters.                                                             *)
(***************************************************************************)
UpperChars == <<"A","B","C","D","E","F","G","H","I","J","K","L","M",
                "N","O","P","Q","R","S","T","U","V","W","X","Y","Z">>

LowerChars == <<"a","b","c","d","e","f","g","h","i","j","k","l","m",
                "n","o","p","q","r","s","t","u","v","w","x","y","z">>

LowerChar(c) ==
    IF \E k \in 1..Len(UpperChars) : UpperChars[k] = c
    THEN LowerChars[CHOOSE k \in 1..Len(UpperChars) : UpperChars[k] = c]
    ELSE c

\* String.prototype.toLowerCase on a character sequence
ToLowerCase(s) == [k \in 1..Len(s) |-> LowerChar(s[k])]

WhitespaceChars == {" ", "\n", "\t", "\r"}

\* bodyText.trim().length > 0
TrimNonEmpty(text) ==
    IF "json" \in DOMAIN text
    THEN TRUE
    ELSE \E k \in 1..Len(text.s) : text.s[k] \notin WhitespaceChars

(***************************************************************************)
(* kreaClient.ts helpers                                                   *)
(***************************************************************************)
S_unknown == <<"u","n","k","n","o","w","n">>

S_completed == <<"c","o","m","p","l","e","t","e","d">>

S_failed == <<"f","a","i","l","e","d">>

S_cancelled == <<"c","a","n","c","e","l","l","e","d">>

normalizeStatusKeepsCase(status) ==
    IF ~(IsString(status) /\ "s" \in DOMAIN status)
    THEN S_unknown
    ELSE status.s

\* normalizeStatus(status: unknown): string  -- returns a character sequence
normalizeStatus(status) ==
    IF ~(IsString(status) /\ "s" \in DOMAIN status)
    THEN S_unknown
    ELSE ToLowerCase(status.s)

isTerminalStatusNoCancelled(status) ==
    status = S_completed \/ status = S_failed

isTerminalStatus(status) ==
    status = S_completed \/ status = S_failed \/ status = S_cancelled

\* stringifyUnknown: strings are returned as they are, everything else goes
\* through JSON.stringify, which yields undefined for undefined.
stringifyUnknown(value) ==
    IF IsString(value) THEN value
    ELSE IF value.t = "undefined" THEN Undef
    ELSE JsonTextOf(value)

(***************************************************************************)
(* index.ts helpers                                                        *)
(***************************************************************************)
\* current[key] for an object-like current
Member(current, key) ==
    IF current.t = "object" /\ key \in DOMAIN current.o
    THEN current.o[key]
    ELSE Undef

RECURSIVE readUnknown(_, _)
readUnknown(obj, path) ==
    IF path = <<>> THEN obj
    ELSE IF ~IsObjectLike(obj) THEN Undef
    ELSE readUnknown(Member(obj, Head(path)), Tail(path))

readString(obj, path) ==
    LET value == readUnknown(obj, path)
    IN  IF IsString(value) THEN value ELSE Undef

pickJob(rawResponse) ==
    IF IsObjectLike(rawResponse)
    THEN IF IsObjectLike(Member(rawResponse, "job"))
         THEN Member(rawResponse, "job")
         ELSE rawResponse
    ELSE EmptyObject

asObject(value) == IF IsObjectLike(value) THEN value ELSE JNull

(***************************************************************************)
(* Errors thrown by the code.  Every error record has name and message.    *)
(***************************************************************************)
NoError == [name |-> "none", message |-> ""]

\* new KreaApiError(`Krea API error ${status}`, status, body)
KreaApiError(status, body) ==
    [name |-> "KreaApiError", message |-> "Krea API error",
     status |-> status, body |-> body]

\* fetch() or response.text() rejected: the rejection is not caught anywhere
FetchError == [name |-> "TypeError", message |-> "fetch failed"]

ApiKeyError == [name |-> "Error", message |-> "KREA_API_KEY is not set."]

MissingJobIdError(details) ==
    [name |-> "Error",
     message |-> "Krea response does not include job id. Response: ",
     details |-> details]

TimeoutError(jobId, timeoutMs) ==
    [name |-> "Error",
     message |-> "Job did not reach a terminal status within ms.",
     jobId |-> jobId, timeoutMs |-> timeoutMs]

\* describeRequiredFields joins the names with ", "; the list is kept.
describeRequiredFields(requiredFields) ==
    IF Len(requiredFields) = 0 THEN <<"none">> ELSE requiredFields

MissingFieldsError(modelKey, missing, requiredFields) ==
    [name |-> "Error", message |-> "Missing required fields for model",
     model |-> modelKey, missing |-> missing,
     requires |-> describeRequiredFields(requiredFields)]

(***************************************************************************)
(* KreaClient: the transport.                                              *)
(*                                                                         *)
(* What the network does with one HTTP request is an HttpOutcome: either   *)
(* the fetch rejects, or a response with a status and a body text arrives. *)
(* A body text is a string: JsonTextOf(v) when it is valid JSON for v, a   *)
(* character sequence (never valid JSON in this model) otherwise.          *)
(***************************************************************************)
Rejected == [kind |-> "rejected"]

Response(status, bodyText) ==
    [kind |-> "response", status |-> status, bodyText |-> bodyText]

\* response.ok
ResponseOk(status) == status >= 200 /\ status <= 299

\* lines 54-62: the body as parsed JSON, as raw text, or undefined when blank
ParseBody(bodyText) ==
    IF ~TrimNonEmpty(bodyText) THEN Undef
    ELSE IF "json" \in DOMAIN bodyText THEN bodyText.json
    ELSE bodyText

Returned(value) == [threw |-> FALSE, value |-> value, error |-> NoError]

Threw(error) == [threw |-> TRUE, value |-> Undef, error |-> error]

requestSwallowsRejection(outcome) ==
    IF outcome.kind = "rejected" THEN Returned(Undef)
    ELSE LET jsonBody == ParseBody(outcome.bodyText)
         IN  IF ~ResponseOk(outcome.status)
             THEN Threw(KreaApiError(outcome.status, stringifyUnknown(jsonBody)))
             ELSE Returned(jsonBody)

\* KreaClient.request, from the moment the fetch settles
request(outcome) ==
    IF outcome.kind = "rejected" THEN Threw(FetchError)
    ELSE LET jsonBody == ParseBody(outcome.bodyText)
         IN  IF ~ResponseOk(outcome.status)
             THEN Threw(KreaApiError(outcome.status, stringifyUnknown(jsonBody)))
             ELSE Returned(jsonBody)

ReservedChars == {"/", " ", "?", "#", "%"}

PercentEncoded(c) ==
    CASE c = "/" -> <<"%","2","F">>
      [] c = " " -> <<"%","2","0">>
      [] c = "?" -> <<"%","3","F">>
      [] c = "#" -> <<"%","2","3">>
      [] c = "%" -> <<"%","2","5">>
      [] OTHER -> <<c>>

RECURSIVE encodeURIComponent(_)
encodeURIComponent(s) ==
    IF s = <<>> THEN <<>>
    ELSE PercentEncoded(Head(s)) \o encodeURIComponent(Tail(s))

\* The request line of generateImage and getJob (the base URL is fixed).
PostRequest(endpoint, payload) ==
    [method |-> "POST", path |-> endpoint, body |-> JsonTextOf(payload)]

GetRequest(jobId) ==
    [method |-> "GET", path |-> <<"/","j","o","b","s","/">> \o encodeURIComponent(jobId.s)]

fromEnvNeverThrows(key) == FALSE

\* KreaClient.fromEnv on the value of process.env.KREA_API_KEY
fromEnvThrows(key) == ~Truthy(key)

(***************************************************************************)
(* models.ts: the catalog                                                  *)
(***************************************************************************)
KREA_IMAGE_MODELS ==
    [flux_1_dev |->
        [title |-> "BFL Flux 1 Dev", endpoint |-> "/generate/image/bfl/flux-1-dev",
         requiredFields |-> <<"prompt">>],
     flux_kontext_max |->
        [title |-> "BFL Flux 1 Kontext Dev",
         endpoint |-> "/generate/image/bfl/flux-1-kontext-dev",
         requiredFields |-> <<"prompt">>],
     nano_banana_pro |->
        [title |-> "Google Nano Banana Pro",
         endpoint |-> "/generate/image/google/nano-banana-pro",
         requiredFields |-> <<"prompt">>],
     nano_banana |->
        [title |-> "Google Nano Banana",
         endpoint |-> "/generate/image/google/nano-banana",
         requiredFields |-> <<"prompt">>],
     flux_1_1_pro |->
        [title |-> "BFL Flux 1.1 Pro", endpoint |-> "/generate/image/bfl/flux-1.1-pro",
         requiredFields |-> <<"prompt", "width", "height">>,
         defaultWidth |-> 1024, defaultHeight |-> 1024],
     flux_1_1_pro_ultra |->
        [title |-> "BFL Flux 1.1 Pro Ultra",
         endpoint |-> "/generate/image/bfl/flux-1.1-pro-ultra",
         requiredFields |-> <<"prompt">>],
     ideogram_2a |->
        [title |-> "Ideogram 2 Turbo",
         endpoint |-> "/generate/image/ideogram/ideogram-2-turbo",
         requiredFields |-> <<"prompt">>],
     ideogram_3 |->
        [title |-> "Ideogram 3", endpoint |-> "/generate/image/ideogram/ideogram-3",
         requiredFields |-> <<"prompt">>],
     imagen_3 |->
        [title |-> "Google Imagen 3", endpoint |-> "/generate/image/google/imagen-3",
         requiredFields |-> <<"prompt">>],
     imagen_4 |->
        [title |-> "Google Imagen 4", endpoint |-> "/generate/image/google/imagen-4",
         requiredFields |-> <<"prompt">>],
     imagen_4_fast |->
        [title |-> "Google Imagen 4 Fast",
         endpoint |-> "/generate/image/google/imagen-4-fast",
         requiredFields |-> <<"prompt">>],
     imagen_4_ultra |->
        [title |-> "Google Imagen 4 Ultra",
         endpoint |-> "/generate/image/google/imagen-4-ultra",
         requiredFields |-> <<"prompt">>],
     runway_gen_4_image |->
        [title |-> "Runway Gen-4 Image", endpoint |-> "/generate/image/runway/gen-4",
         requiredFields |-> <<"prompt", "referenceImages">>],
     chatgpt_image_1 |->
        [title |-> "OpenAI GPT Image", endpoint |-> "/generate/image/openai/gpt-image",
         requiredFields |-> <<"prompt">>],
     seedream_3 |->
        [title |-> "Bytedance Seedream 3",
         endpoint |-> "/generate/image/bytedance/seedream-3",
         requiredFields |-> <<"prompt">>,
         fixedPayload |-> [model |-> "seedream-3"]],
     seedream_4 |->
        [title |-> "Bytedance Seedream 4",
         endpoint |-> "/generate/image/bytedance/seedream-4",
         requiredFields |-> <<"prompt", "width", "height">>,
         defaultWidth |-> 1024, defaultHeight |-> 1024],
     seededit_3 |->
        [title |-> "Bytedance Seededit 3",
         endpoint |-> "/generate/image/bytedance/seededit",
         requiredFields |-> <<"prompt", "imageUrl">>],
     qwen_image |->
        [title |-> "Qwen Image", endpoint |-> "/generate/image/qwen/2512",
         requiredFields |-> <<"prompt">>],
     zimage |->
        [title |-> "ZAI ZImage", endpoint |-> "/generate/image/z-image/z-image",
         requiredFields |-> <<"prompt", "width", "height">>,
         defaultWidth |-> 1024, defaultHeight |-> 1024]]

MODEL_KEYS == DOMAIN KREA_IMAGE_MODELS

\* obj.field !== undefined, for inputs, payloads and model definitions
Has(obj, field) == field \in DOMAIN obj

\* payload[key] = value
Put(payload, key, value) ==
    [k \in DOMAIN payload \cup {key} |-> IF k = key THEN value ELSE payload[k]]

\* requiredFields.includes(field)
Includes(list, field) == \E k \in 1..Len(list) : list[k] = field

(***************************************************************************)
(* The generate builder: validateInputByModel, parseSize, buildPayload.    *)
(* An input is a function from the names of the supplied fields to their   *)
(* values; a field that was not supplied is not in its domain.             *)
(***************************************************************************)
\* what one required field adds to `missing` (lines 538-552)
MissingFor(field, input, model) ==
    IF field = "prompt" THEN <<>>
    ELSE (IF field = "width" /\ ~Has(input, "width") /\ ~Has(model, "defaultWidth")
          THEN <<"width">> ELSE <<>>)
      \o (IF field = "height" /\ ~Has(input, "height") /\ ~Has(model, "defaultHeight")
          THEN <<"height">> ELSE <<>>)
      \o (IF field = "referenceImages"
             /\ (~Has(input, "reference_images") \/ Len(input.reference_images) = 0)
          THEN <<"reference_images">> ELSE <<>>)
      \o (IF field = "imageUrl" /\ (~Has(input, "image_url") \/ input.image_url = "")
          THEN <<"image_url">> ELSE <<>>)

RECURSIVE MissingFromFirstOnly(_, _, _)
MissingFromFirstOnly(fields, input, model) ==
    IF fields = <<>> THEN <<>>
    ELSE IF MissingFor(Head(fields), input, model) # <<>>
         THEN MissingFor(Head(fields), input, model)
    ELSE MissingFromFirstOnly(Tail(fields), input, model)

RECURSIVE MissingFrom(_, _, _)
MissingFrom(fields, input, model) ==
    IF fields = <<>> THEN <<>>
    ELSE MissingFor(Head(fields), input, model) \o MissingFrom(Tail(fields), input, model)

validateInputSkipped(input, model) == NoError

\* validateInputByModel: NoError when it returns, the error when it throws
validateInputByModel(input, model) ==
    LET missing == MissingFrom(model.requiredFields, input, model)
    IN  IF Len(missing) > 0
        THEN MissingFieldsError(input.model, missing, model.requiredFields)
        ELSE NoError

DigitChars == <<"0","1","2","3","4","5","6","7","8","9">>

IsDigit(c) == \E k \in 1..Len(DigitChars) : DigitChars[k] = c

DigitValue(c) == (CHOOSE k \in 1..Len(DigitChars) : DigitChars[k] = c) - 1

\* [1-9][0-9]*
IsPositiveDecimal(s) ==
    /\ Len(s) > 0
    /\ \A k \in 1..Len(s) : IsDigit(s[k])
    /\ s[1] # "0"

RECURSIVE DecimalValue(_)
DecimalValue(s) ==
    IF s = <<>> THEN 0
    ELSE 10 * DecimalValue(SubSeq(s, 1, Len(s) - 1)) + DigitValue(s[Len(s)])

\* the positions of the "x" that make /^([1-9][0-9]*)x([1-9][0-9]*)$/ match
SizeSplits(size) ==
    {k \in 1..Len(size) :
        /\ size[k] = "x"
        /\ IsPositiveDecimal(SubSeq(size, 1, k - 1))
        /\ IsPositiveDecimal(SubSeq(size, k + 1, Len(size)))}

\* parseSize: a function with width and height, or the empty function for
\* undefined (so that size?.width !== undefined is Has(size, "width"))
parseSize(input) ==
    IF ~Has(input, "size") \/ input.size = <<>> THEN <<>>
    ELSE IF SizeSplits(input.size) = {} THEN <<>>
    ELSE LET k == CHOOSE j \in SizeSplits(input.size) : TRUE
         IN  [width |-> DecimalValue(SubSeq(input.size, 1, k - 1)),
              height |-> DecimalValue(SubSeq(input.size, k + 1, Len(input.size)))]

ResolveDimensionNoSize(payload, input, model, size, axis, defaultName) ==
    IF Has(input, axis) THEN Put(payload, axis, input[axis])
    ELSE IF Includes(model.requiredFields, axis) /\ Has(model, defaultName)
         THEN Put(payload, axis, model[defaultName])
    ELSE payload

\* lines 571-577 and 579-585, for axis "width" or "height"
ResolveDimension(payload, input, model, size, axis, defaultName) ==
    IF Has(input, axis) THEN Put(payload, axis, input[axis])
    ELSE IF Has(size, axis) THEN Put(payload, axis, size[axis])
    ELSE IF Includes(model.requiredFields, axis) /\ Has(model, defaultName)
         THEN Put(payload, axis, model[defaultName])
    ELSE payload

PassThroughNever(payload, input, field, key) == payload

\* if (input[field] !== undefined) payload[key] = input[field]
PassThrough(payload, input, field, key) ==
    IF Has(input, field) THEN Put(payload, key, input[field]) ELSE payload

buildPayload(input, model) ==
    LET p0 == Put(IF Has(model, "fixedPayload") THEN model.fixedPayload ELSE <<>>,
                  "prompt", input.prompt)
        size == parseSize(input)
        p1 == ResolveDimension(p0, input, model, size, "width", "defaultWidth")
        p2 == ResolveDimension(p1, input, model, size, "height", "defaultHeight")
        p3 == PassThrough(p2, input, "seed", "seed")
        p4 == PassThrough(p3, input, "batch_size", "batchSize")
        p5 == PassThrough(p4, input, "guidance_scale",
                  IF input.model = "qwen_image" THEN "cfg_scale" ELSE "guidance_scale_flux")
        p6 == PassThrough(p5, input, "num_inference_steps",
                  IF input.model = "qwen_image" THEN "num_inference_steps" ELSE "steps")
        p7 == IF input.model = "qwen_image"
              THEN PassThrough(p6, input, "negative_prompt", "negative_prompt")
              ELSE p6
        p8 == IF Has(input, "style") THEN Put(p7, "styles", <<input.style>>) ELSE p7
        p9 == IF Has(input, "reference_image")
              THEN Put(p8, "styleImages", <<input.reference_image>>) ELSE p8
        p10 == PassThrough(p9, input, "reference_images", "referenceImages")
    IN  PassThrough(p10, input, "image_url", "imageUrl")

(***************************************************************************)
(* The upscale builder: resolveUpscaleModel, buildUpscaleRequest.          *)
(***************************************************************************)
UPSCALE_MODES == {"standard", "generative", "bloom"}

UPSCALE_STANDARD_MODELS ==
    {"Standard V2", "Low Resolution V2", "CGI", "High Fidelity V2", "Text Refine"}

UPSCALE_GENERATIVE_MODELS == {"Redefine", "Recovery", "Recovery V2", "Reimagine"}

BuildError(message) == [name |-> "Error", message |-> message]

resolveUpscaleModelAnyMode(mode, input) ==
    LET selected == IF Has(input, "model") THEN input.model
                    ELSE IF mode = "standard" THEN "Standard V2"
                    ELSE IF mode = "generative" THEN "Redefine"
                    ELSE "Reimagine"
    IN  IF selected \notin UPSCALE_STANDARD_MODELS \cup UPSCALE_GENERATIVE_MODELS
        THEN [ok |-> FALSE, error |-> BuildError(<<"Invalid model">>)]
        ELSE [ok |-> TRUE, model |-> selected]

\* resolveUpscaleModel: [ok, model] or [ok, error]
resolveUpscaleModel(mode, input) ==
    IF mode = "standard"
    THEN LET selected == IF Has(input, "model") THEN input.model ELSE "Standard V2"
         IN  IF selected \notin UPSCALE_STANDARD_MODELS
             THEN [ok |-> FALSE,
                   error |-> [name |-> "Error", message |-> "Invalid standard model",
                              selected |-> selected]]
             ELSE [ok |-> TRUE, model |-> selected]
    ELSE IF mode = "generative"
    THEN LET selected == IF Has(input, "model") THEN input.model ELSE "Redefine"
         IN  IF selected \notin UPSCALE_GENERATIVE_MODELS
             THEN [ok |-> FALSE,
                   error |-> [name |-> "Error", message |-> "Invalid generative model",
                              selected |-> selected]]
             ELSE [ok |-> TRUE, model |-> selected]
    ELSE LET selected == IF Has(input, "model") THEN input.model ELSE "Reimagine"
         IN  IF selected # "Reimagine"
             THEN [ok |-> FALSE,
                   error |-> BuildError(<<"Bloom mode supports only model \"Reimagine\".">>)]
             ELSE [ok |-> TRUE, model |-> selected]

UpscaleEndpoint(mode) ==
    IF mode = "standard" THEN "/generate/enhance/topaz/standard-enhance"
    ELSE IF mode = "generative" THEN "/generate/enhance/topaz/generative-enhance"
    ELSE "/generate/enhance/topaz/bloom-enhance"

BLOOM_MAX_DIMENSION == 10000

DEFAULT_MAX_DIMENSION == 32000

\* creativity: z.number().int().min(1).max(9)
SCHEMA_MAX_CREATIVITY == 9

GENERATIVE_MAX_CREATIVITY == 6

MaxDimensionAnyMode(mode) == DEFAULT_MAX_DIMENSION

MaxDimension(mode) ==
    IF mode = "bloom" THEN BLOOM_MAX_DIMENSION ELSE DEFAULT_MAX_DIMENSION

\* An error message is the sequence of its parts, so that the parameter and
\* the modes it names can be read off it.
\* `${field} is not supported in ${mode} mode.`
NotSupportedIn(field, mode) == <<field, " is not supported in ", mode, " mode.">>

RECURSIVE JoinOr(_)
JoinOr(modes) ==
    IF Len(modes) = 1 THEN modes
    ELSE <<Head(modes), " or ">> \o JoinOr(Tail(modes))

UnnamedRejection(field, modes) == <<"This parameter is not supported in this mode.">>

\* `${field} is only supported in ${modes joined by or} mode.`
OnlySupportedIn(field, modes) ==
    <<field, " is only supported in ">> \o JoinOr(modes) \o <<" mode.">>

\* lines 655-756 in the order of the code: the input field, the payload key,
\* the modes in which the code throws, and the message it throws
UpscaleParams ==
    << [field |-> "batch_size", key |-> "batchSize", rejected |-> {}, message |-> <<>>],
       [field |-> "seed", key |-> "seed", rejected |-> {}, message |-> <<>>],
       [field |-> "prompt", key |-> "prompt", rejected |-> {}, message |-> <<>>],
       [field |-> "output_format", key |-> "output_format", rejected |-> {}, message |-> <<>>],
       [field |-> "crop_to_fill", key |-> "crop_to_fill", rejected |-> {}, message |-> <<>>],
       [field |-> "upscaling_activated", key |-> "upscaling_activated", rejected |-> {},
        message |-> <<>>],
       [field |-> "image_scaling_factor", key |-> "image_scaling_factor", rejected |-> {},
        message |-> <<>>],
       [field |-> "sharpen", key |-> "sharpen", rejected |-> {"bloom"},
        message |-> NotSupportedIn("sharpen", "bloom")],
       [field |-> "denoise", key |-> "denoise", rejected |-> {"bloom"},
        message |-> NotSupportedIn("denoise", "bloom")],
       [field |-> "subject_detection", key |-> "subject_detection", rejected |-> {"bloom"},
        message |-> NotSupportedIn("subject_detection", "bloom")],
       [field |-> "face_enhancement", key |-> "face_enhancement", rejected |-> {"bloom"},
        message |-> NotSupportedIn("face_enhancement", "bloom")],
       [field |-> "face_enhancement_creativity", key |-> "face_enhancement_creativity",
        rejected |-> {"bloom"},
        message |-> NotSupportedIn("face_enhancement_creativity", "bloom")],
       [field |-> "face_enhancement_strength", key |-> "face_enhancement_strength",
        rejected |-> {"bloom"},
        message |-> NotSupportedIn("face_enhancement_strength", "bloom")],
       [field |-> "strength", key |-> "strength", rejected |-> {"generative", "bloom"},
        message |-> OnlySupportedIn("strength", <<"standard">>)],
       [field |-> "fix_compression", key |-> "fix_compression",
        rejected |-> {"generative", "bloom"},
        message |-> OnlySupportedIn("fix_compression", <<"standard">>)],
       [field |-> "texture", key |-> "texture", rejected |-> {"standard", "bloom"},
        message |-> OnlySupportedIn("texture", <<"generative">>)],
       [field |-> "detail", key |-> "detail", rejected |-> {"standard", "bloom"},
        message |-> OnlySupportedIn("detail", <<"generative">>)],
       [field |-> "creativity", key |-> "creativity", rejected |-> {"standard"},
        message |-> OnlySupportedIn("creativity", <<"generative", "bloom">>)],
       [field |-> "face_preservation", key |-> "face_preservation",
        rejected |-> {"standard", "generative"},
        message |-> OnlySupportedIn("face_preservation", <<"bloom">>)],
       [field |-> "color_preservation", key |-> "color_preservation",
        rejected |-> {"standard", "generative"},
        message |-> OnlySupportedIn("color_preservation", <<"bloom">>)] >>

ParamViolationNever(k, mode, input) == <<>>

\* the message thrown inside the k-th `if (input.x !== undefined)` block, or ""
ParamViolation(k, mode, input) ==
    LET p == UpscaleParams[k]
    IN  IF ~Has(input, p.field) THEN <<>>
        ELSE IF mode \in p.rejected THEN p.message
        ELSE IF p.field = "creativity" /\ mode = "generative"
                /\ input.creativity > GENERATIVE_MAX_CREATIVITY
             THEN <<"generative", " mode supports ", "creativity", " from 1 to 6.">>
        ELSE <<>>

RECURSIVE UpscalePayloadFrom(_, _, _)
UpscalePayloadFrom(k, payload, input) ==
    IF k > Len(UpscaleParams) THEN payload
    ELSE UpscalePayloadFrom(k + 1,
             PassThrough(payload, input, UpscaleParams[k].field, UpscaleParams[k].key),
             input)

\* buildUpscaleRequest: [ok |-> TRUE, mode, endpoint, normalizedModel, payload]
\* when it returns, [ok |-> FALSE, error] when it throws
buildUpscaleRequest(input) ==
    LET mode == IF Has(input, "mode") THEN input.mode ELSE "standard"
        endpoint == UpscaleEndpoint(mode)
        maxDimension == MaxDimension(mode)
        resolved == resolveUpscaleModel(mode, input)
        violations == {k \in 1..Len(UpscaleParams) : ParamViolation(k, mode, input) # <<>>}
        first == CHOOSE k \in violations : \A j \in violations : k <= j
    IN  IF input.width > maxDimension \/ input.height > maxDimension
        THEN [ok |-> FALSE,
              error |-> [name |-> "Error", message |-> "Mode supports up to",
                         mode |-> mode, maxDimension |-> maxDimension,
                         width |-> input.width, height |-> input.height]]
        ELSE IF ~resolved.ok THEN [ok |-> FALSE, error |-> resolved.error]
        ELSE IF violations # {}
             THEN [ok |-> FALSE, error |-> BuildError(ParamViolation(first, mode, input))]
        ELSE [ok |-> TRUE, mode |-> mode, endpoint |-> endpoint,
              normalizedModel |-> resolved.model,
              payload |-> UpscalePayloadFrom(1,
                  [width |-> input.width, height |-> input.height,
                   image_url |-> input.image_url, model |-> resolved.model], input)]

(***************************************************************************)
(* extractHttpUrls and looksLikeUrl                                        *)
(***************************************************************************)
HostChars ==
    {LowerChars[k] : k \in 1..Len(LowerChars)} \cup {UpperChars[k] : k \in 1..Len(UpperChars)}
        \cup {DigitChars[k] : k \in 1..Len(DigitChars)} \cup {".", "-"}

\* s without the characters of `chars` at its start
RECURSIVE DropWhileIn(_, _)
DropWhileIn(s, chars) ==
    IF s # <<>> /\ Head(s) \in chars THEN DropWhileIn(Tail(s), chars) ELSE s

\* the longest prefix of s made of characters outside `chars`
RECURSIVE TakeUntilIn(_, _)
TakeUntilIn(s, chars) ==
    IF s = <<>> \/ Head(s) \in chars THEN <<>>
    ELSE <<Head(s)>> \o TakeUntilIn(Tail(s), chars)

looksLikeUrlAnyScheme(value) ==
    LET s == value.s
        scheme == TakeUntilIn(s, {":"})
        afterScheme == SubSeq(s, Len(scheme) + 2, Len(s))
        host == TakeUntilIn(DropWhileIn(afterScheme, {"/", "\\"}), {"/", "\\", "?", "#"})
    IN  /\ "s" \in DOMAIN value
        /\ Len(scheme) < Len(s)
        /\ Len(scheme) > 0
        /\ Len(host) > 0

\* new URL(value) succeeds and its protocol is "http:" or "https:".  The URL
\* parser lower-cases the scheme, skips the slashes after it and fails on an
\* empty or malformed host.  (Credentials, ports and IPv6 hosts do not occur
\* in the strings of this model.)
looksLikeUrl(value) ==
    LET s == value.s
        scheme == ToLowerCase(TakeUntilIn(s, {":"}))
        afterScheme == SubSeq(s, Len(scheme) + 2, Len(s))
        host == TakeUntilIn(DropWhileIn(afterScheme, {"/", "\\"}), {"/", "\\", "?", "#"})
    IN  /\ "s" \in DOMAIN value
        /\ Len(scheme) < Len(s)
        /\ scheme \in {<<"h","t","t","p">>, <<"h","t","t","p","s">>}
        /\ Len(host) > 0
        /\ \A k \in 1..Len(host) : host[k] \in HostChars

\* The order in which the documents of this model list their keys.
KeyOrder ==
    <<"id", "job_id", "status", "result", "error", "job", "urls", "url", "message",
      "a", "b", "c", "d", "https://k.test/k.png">>

\* Object.values(current): the values in the order of the keys
ObjectValues(current) ==
    LET present == SelectSeq(KeyOrder, LAMBDA k : k \in DOMAIN current.o)
    IN  [j \in 1..Len(present) |-> current.o[present[j]]]

\* found.add(current): a Set keeps the first insertion of each value
SetAdd(found, value) ==
    IF \E k \in 1..Len(found) : found[k] = value THEN found ELSE Append(found, value)

\* the while loop of extractHttpUrls: stack.pop() takes the last element
RECURSIVE ExtractLoop(_, _)
ExtractLoop(stack, found) ==
    IF stack = <<>> THEN found
    ELSE LET current == stack[Len(stack)]
             rest == SubSeq(stack, 1, Len(stack) - 1)
         IN  IF IsString(current)
             THEN ExtractLoop(rest, IF looksLikeUrl(current) THEN SetAdd(found, current)
                                    ELSE found)
             ELSE IF current.t = "array" THEN ExtractLoop(rest \o current.a, found)
             ELSE IF current.t = "object"
                  THEN ExtractLoop(rest \o ObjectValues(current), found)
             ELSE ExtractLoop(rest, found)

extractHttpUrls(value) == ExtractLoop(<<value>>, <<>>)

(***************************************************************************)
(* The tool handlers, as functions of what they have read so far.          *)
(***************************************************************************)
DEFAULT_POLL_INTERVAL_MS == 2000

DEFAULT_TIMEOUT_MS == 180000

\* field: rawInput.field ?? value
WithDefault(input, field, value) ==
    IF Has(input, field) THEN input ELSE Put(input, field, value)

ApplyDefaultsWaitFalse(toolName, given) ==
    WithDefault(WithDefault(WithDefault(given, "wait_for_completion", FALSE),
        "poll_interval_ms", DEFAULT_POLL_INTERVAL_MS), "timeout_ms", DEFAULT_TIMEOUT_MS)

\* lines 298-304 and 415-420
ApplyDefaults(toolName, given) ==
    LET polled ==
            WithDefault(WithDefault(WithDefault(given, "wait_for_completion", TRUE),
                "poll_interval_ms", DEFAULT_POLL_INTERVAL_MS),
                "timeout_ms", DEFAULT_TIMEOUT_MS)
    IN  IF toolName = "krea_upscale_image"
        THEN WithDefault(polled, "mode", "standard")
        ELSE polled

\* lines 422-425: validateInputByModel, then buildPayload
BuildGenerate(input) ==
    LET model == KREA_IMAGE_MODELS[input.model]
        invalid == validateInputByModel(input, model)
    IN  IF invalid # NoError THEN [ok |-> FALSE, error |-> invalid]
        ELSE [ok |-> TRUE, endpoint |-> model.endpoint,
              payload |-> buildPayload(input, model)]

\* the builder of either tool
Build(toolName, input) ==
    IF toolName = "krea_upscale_image" THEN buildUpscaleRequest(input)
    ELSE BuildGenerate(input)

\* readString(createJob, "id") ?? readString(createJob, "job_id")
ExtractJobId(createJob) ==
    Nullish(readString(createJob, <<"id">>), readString(createJob, <<"job_id">>))

OutputHeadReportsInput(toolName, input, built) ==
    IF toolName = "krea_upscale_image"
    THEN [mode |-> built.mode, model |-> built.normalizedModel,
          endpoint |-> built.endpoint, payload_sent |-> input]
    ELSE [model |-> input.model, endpoint |-> built.endpoint, payload_sent |-> input]

\* the fields of the structured output that name the tool's model / mode
OutputHead(toolName, input, built) ==
    IF toolName = "krea_upscale_image"
    THEN [mode |-> built.mode, model |-> built.normalizedModel,
          endpoint |-> built.endpoint, payload_sent |-> built.payload]
    ELSE [model |-> input.model, endpoint |-> built.endpoint,
          payload_sent |-> built.payload]

\* lines 318-340 and 437-458: the result when wait_for_completion is false
CreatedResult(toolName, input, built, jobId, createResponse) ==
    LET initialStatus ==
            normalizeStatus(readString(pickJob(createResponse), <<"status">>))
    IN  [content |-> <<[line |-> "created with status", job_id |-> jobId,
                        status |-> initialStatus]>>,
         structuredContent |->
            OutputHead(toolName, input, built) @@
            [job_id |-> jobId, status |-> initialStatus, wait_for_completion |-> FALSE,
             create_response |-> createResponse]]

\* lines 350-384 and 469-501: the result built from the poller's outcome
FinalResult(toolName, input, built, jobId, finalJobResult) ==
    LET imageUrls == extractHttpUrls(readUnknown(finalJobResult.job, <<"result">>))
        status == normalizeStatus(readString(finalJobResult.job, <<"status">>))
        error == readUnknown(finalJobResult.job, <<"error">>)
    IN  [content |->
            <<[line |-> "Job ID", value |-> jobId], [line |-> "Status", value |-> status]>>
            \o (IF Len(imageUrls) > 0 THEN <<[line |-> "Images", value |-> imageUrls]>>
                ELSE <<>>)
            \o (IF Truthy(error)
                THEN <<[line |-> "Error", value |-> stringifyUnknown(error)]>> ELSE <<>>),
         structuredContent |->
            OutputHead(toolName, input, built) @@
            [job_id |-> jobId, status |-> status, image_urls |-> imageUrls,
             error |-> error, final_job |-> finalJobResult.job,
             final_job_response |-> finalJobResult.rawResponse]]

\* line 525: the poller returns the job it has just read
ReturnsOnlyCompleted(status) == status = S_completed

ReturnsJob(status) == isTerminalStatus(status)

\* lines 514-518: the outcome when the created job is already terminal
InitialOutcome(createJob) ==
    LET initialJob == Nullish(asObject(createJob), EmptyObject)
        initialStatus == normalizeStatus(readString(initialJob, <<"status">>))
    IN  IF ReturnsJob(initialStatus)
        THEN [done |-> TRUE,
              outcome |-> [job |-> initialJob,
                           rawResponse |-> JObj([job |-> initialJob])]]
        ELSE [done |-> FALSE]

DeadlineAtStart(t, timeoutMs) == t

\* line 520: Date.now() + options.timeoutMs
Deadline(t, timeoutMs) == t + timeoutMs

LoopForever(t, limit) == TRUE

LoopContinuesAtDeadline(t, limit) == t <= limit

\* line 521: Date.now() < deadline
LoopContinues(t, limit) == t < limit

(***************************************************************************)
(* The data of the model: the tool inputs the host passes (each valid for  *)
(* the tool's input schema) and what the vendor answers.                   *)
(***************************************************************************)
ToolNames == {"krea_generate_image", "krea_upscale_image"}

\* wait_for_completion, poll_interval_ms and timeout_ms as the caller gives them
PollingControls ==
    { [wait_for_completion |-> FALSE],
      [timeout_ms |-> 5000],
      [wait_for_completion |-> TRUE, poll_interval_ms |-> 3000, timeout_ms |-> 6000] }

GenerateInputs ==
    { [model |-> "flux_1_dev", prompt |-> "a cat"],
      [model |-> "flux_1_1_pro", prompt |-> "a cat", width |-> 512],
      [model |-> "runway_gen_4_image", prompt |-> "a cat"],
      [model |-> "runway_gen_4_image", prompt |-> "a cat",
       reference_images |-> <<"https://r.test/1.png">>],
      [model |-> "seededit_3", prompt |-> "a cat", size |-> <<"5","1","2","x","7","6","8">>],
      [model |-> "seedream_3", prompt |-> "a cat", size |-> <<"5","1","2","x","7","6","8">>, seed |-> 7],
      [model |-> "qwen_image", prompt |-> "a cat", guidance_scale |-> 4,
       num_inference_steps |-> 20, negative_prompt |-> "blurry", style |-> "anime"] }

UpscaleInputs ==
    { [image_url |-> "https://u.test/in.png", width |-> 2048, height |-> 2048],
      [mode |-> "standard", image_url |-> "https://u.test/in.png", width |-> 32000,
       height |-> 1024, model |-> "CGI", strength |-> 1, sharpen |-> 1],
      [mode |-> "standard", image_url |-> "https://u.test/in.png", width |-> 32001,
       height |-> 1024],
      [mode |-> "standard", image_url |-> "https://u.test/in.png", width |-> 1024,
       height |-> 1024, model |-> "Redefine"],
      [mode |-> "standard", image_url |-> "https://u.test/in.png", width |-> 1024,
       height |-> 1024, creativity |-> 3],
      [mode |-> "generative", image_url |-> "https://u.test/in.png", width |-> 1024,
       height |-> 1024, model |-> "Recovery V2", creativity |-> 6, texture |-> 3],
      [mode |-> "generative", image_url |-> "https://u.test/in.png", width |-> 1024,
       height |-> 1024, creativity |-> 7],
      [mode |-> "generative", image_url |-> "https://u.test/in.png", width |-> 1024,
       height |-> 1024, fix_compression |-> 1],
      [mode |-> "bloom", image_url |-> "https://u.test/in.png", width |-> 10000,
       height |-> 10000, creativity |-> 9, face_preservation |-> TRUE],
      [mode |-> "bloom", image_url |-> "https://u.test/in.png", width |-> 20000,
       height |-> 1024],
      [mode |-> "bloom", image_url |-> "https://u.test/in.png", width |-> 1024,
       height |-> 1024, denoise |-> 1] }

RawInputs(toolName) ==
    LET base == IF toolName = "krea_upscale_image" THEN UpscaleInputs ELSE GenerateInputs
    IN  {b @@ c : b \in base, c \in PollingControls}

Url1 == JStr(<<"h","t","t","p","s",":","/","/","x",".","t","e","s","t","/","i",".","p","n","g">>)

Url2 == JStr(<<"h","t","t","p",":","/","/","y",".","t","e","s","t","/","j",".","p","n","g">>)

FtpUrl == JStr(<<"f","t","p",":","/","/","b","a","d">>)

NotAUrl == JStr(<<"n","o","t"," ","a"," ","u","r","l">>)

Id1 == JStr(<<"j","1">>)

Id2 == JStr(<<"a","/","b">>)

CreatePending == JObj([id |-> Id1, status |-> JStr(<<"p","e","n","d","i","n","g">>)])

CreateWrapped == JObj([job |-> JObj([job_id |-> Id2, status |-> JStr(<<"Q","u","e","u","e","d">>)])])

CreateNoStatus == JObj([id |-> JNum(42), job_id |-> Id1])

CreateCompleted ==
    JObj([id |-> Id1, status |-> JStr(<<"C","O","M","P","L","E","T","E","D">>),
          result |-> JObj([urls |-> JArr(<<Url1, FtpUrl, Url1>>)])])

CreateFailed == JObj([job |-> JObj([id |-> Id2, status |-> JStr(<<"f","a","i","l","e","d">>),
                                    error |-> JStr(<<"b","o","o","m">>)])])

CreateCancelled == JObj([job_id |-> Id1, status |-> JStr(<<"C","a","n","c","e","l","l","e","d">>)])

CreateEmptyId == JObj([id |-> JStr(<<>>), job_id |-> Id1, status |-> JStr(<<"p","e","n","d","i","n","g">>)])

CreateNoId == JObj([status |-> JStr(<<"p","e","n","d","i","n","g">>)])

CreateBodies ==
    { JsonTextOf(CreatePending), JsonTextOf(CreateWrapped), JsonTextOf(CreateNoStatus),
      JsonTextOf(CreateCompleted), JsonTextOf(CreateFailed), JsonTextOf(CreateCancelled),
      JsonTextOf(CreateEmptyId), JsonTextOf(CreateNoId), JsonTextOf(JNull),
      JsonTextOf(JArr(<<>>)), JStr(<<"o","o","p","s">>), JStr(<<>>) }

JobRunning == JObj([id |-> Id1, status |-> JStr(<<"r","u","n","n","i","n","g">>)])

JobNoStatus == JObj([job |-> JObj([status |-> JNum(3)])])

JobCompleted ==
    JObj([job |-> JObj([id |-> Id1, status |-> JStr(<<"C","o","m","p","l","e","t","e","d">>),
                        result |-> JArr(<<Url1, NotAUrl, Url2>>)])])

JobFailed ==
    JObj([status |-> JStr(<<"F","A","I","L","E","D">>), error |-> JObj([message |-> JStr(<<"b","o","o","m">>)])])

JobCancelled == JObj([status |-> JStr(<<"c","a","n","c","e","l","l","e","d">>)])

JobBodies ==
    { JsonTextOf(JobRunning), JsonTextOf(JobNoStatus), JsonTextOf(JobCompleted),
      JsonTextOf(JobFailed), JsonTextOf(JobCancelled), JStr(<<"o","o","p","s">>), JStr(<<" ">>) }

\* what a response outside 2xx carries
ErrorBodies ==
    { JStr(<<>>), JStr(<<"B","a","d"," ","G","a","t","e","w","a","y">>), JsonTextOf(JObj([error |-> JStr(<<"b","a","d">>)])),
      JsonTextOf(JobCompleted) }

ErrorResponses == {Response(status, body) : status \in {300, 404, 500}, body \in ErrorBodies}

CreateOutcomes ==
    {Rejected} \cup {Response(200, body) : body \in CreateBodies}
        \cup {Response(299, JsonTextOf(CreatePending))} \cup ErrorResponses

JobOutcomes ==
    {Rejected} \cup {Response(200, body) : body \in JobBodies}
        \cup {Response(299, JsonTextOf(JobCancelled))} \cup ErrorResponses

\* process.env.KREA_API_KEY
EnvKeys == {Undef, JStr(<<>>), JStr(<<"k","e","y">>)}

(***************************************************************************)
(* Bounds                                                                  *)
(***************************************************************************)
\* tool invocations the host may have in flight
MaxInvocations == 2

\* how long a request may take to settle beyond no time at all
LatencyMs == 1000

\* how late a timer may fire
LatenessMs == 1000

\* calls (POST, GET, sleep) one invocation may make
MaxCalls == 8

Invocations == 1..MaxInvocations

Latencies == {0, LatencyMs}

Lateness == {0, LatenessMs}

Max(a, b) == IF a >= b THEN a ELSE b

(***************************************************************************)
(* State                                                                   *)
(***************************************************************************)
VARIABLES
    server,          \* the bootstrap: "starting", "running" or "exited"
    envKey,          \* process.env.KREA_API_KEY
    active,          \* the invocations the host makes
    now,             \* Date.now()
    pc,              \* where each invocation is
    tool,            \* the tool it invokes
    rawInput,        \* the input the host passed
    input,           \* its input, defaults applied
    built,           \* what its builder returned
    createResponse,  \* the value the create POST returned
    jobId,           \* the job id extracted from it
    loopStart,       \* Date.now() when the poll loop was entered
    deadline,        \* the poller's deadline
    wakeAt,          \* when the pending sleep is due
    result,          \* what the handler returned
    err,             \* what the handler threw
    calls,           \* the POST, GET and sleep calls it has made, in order
    settled,         \* the last HTTP request that settled, and how
    fn,              \* the function applied on its own, "none" in a server run
    arg,             \* its argument
    out              \* what it returned or threw

vars ==
    <<server, envKey, active, now, pc, tool, rawInput, input, built, createResponse,
      jobId, loopStart, deadline, wakeAt, result, err, calls, settled, fn, arg, out>>

NoResult == [content |-> <<>>]

NothingSettled == [op |-> "none"]

SleepCall(ms) == [method |-> "sleep", ms |-> ms]

InitWith(invoked) ==
    /\ server = "starting"
    /\ envKey \in EnvKeys
    /\ active = invoked
    /\ now = 0
    /\ pc = [i \in Invocations |-> "idle"]
    /\ tool = [i \in Invocations |-> "none"]
    /\ rawInput = [i \in Invocations |-> <<>>]
    /\ input = [i \in Invocations |-> <<>>]
    /\ built = [i \in Invocations |-> [ok |-> FALSE]]
    /\ createResponse = [i \in Invocations |-> Undef]
    /\ jobId = [i \in Invocations |-> Undef]
    /\ loopStart = [i \in Invocations |-> 0]
    /\ deadline = [i \in Invocations |-> 0]
    /\ wakeAt = [i \in Invocations |-> 0]
    /\ result = [i \in Invocations |-> NoResult]
    /\ err = [i \in Invocations |-> NoError]
    /\ calls = [i \in Invocations |-> <<>>]
    /\ settled = [i \in Invocations |-> NothingSettled]

NotApplied == [done |-> FALSE]

Init ==
    /\ InitWith({1})
    /\ fn = "none"
    /\ arg = <<>>
    /\ out = NotApplied

(***************************************************************************)
(* The bootstrap: main() connects the transport; when that rejects, the    *)
(* catch handler logs and exits the process.                               *)
(***************************************************************************)
ServerConnects ==
    /\ server = "starting"
    /\ server' = "running"
    /\ UNCHANGED <<envKey, active, now, pc, tool, rawInput, input, built, createResponse, jobId,
                   loopStart, deadline, wakeAt, result, err, calls, settled>>
    /\ UNCHANGED <<fn, arg, out>>

ServerExits ==
    /\ server = "starting"
    /\ server' = "exited"
    /\ UNCHANGED <<envKey, active, now, pc, tool, rawInput, input, built, createResponse, jobId,
                   loopStart, deadline, wakeAt, result, err, calls, settled>>
    /\ UNCHANGED <<fn, arg, out>>

(***************************************************************************)
(* One tool invocation.  Each action runs the handler from one suspension  *)
(* point (an await that leaves the process) to the next.                   *)
(***************************************************************************)
\* the handler throws
Throw(i, error) ==
    /\ pc' = [pc EXCEPT ![i] = "failed"]
    /\ err' = [err EXCEPT ![i] = error]
    /\ result' = result

FinishForAll(i, value) ==
    /\ pc' = [pc EXCEPT ![i] = "returned"]
    /\ result' = [j \in Invocations |-> value]
    /\ err' = err

\* the handler returns
Finish(i, value) ==
    /\ pc' = [pc EXCEPT ![i] = "returned"]
    /\ result' = [result EXCEPT ![i] = value]
    /\ err' = err

\* the handler suspends
Await(i, state) ==
    /\ pc' = [pc EXCEPT ![i] = state]
    /\ UNCHANGED <<result, err>>

Call(i, call) ==
    calls' = [calls EXCEPT ![i] = Append(@, call)]

\* !input.wait_for_completion is false
ShouldWait(inp) == Has(inp, "wait_for_completion") /\ inp.wait_for_completion

\* lines 521-531 at the loop test, read at time t: the next getJob or the timeout
LoopHead(i, t, limit, id) ==
    IF LoopContinues(t, limit)
    THEN /\ Len(calls[i]) + 2 <= MaxCalls
         /\ Call(i, GetRequest(id))
         /\ Await(i, "awaitGet")
    ELSE Throw(i, TimeoutError(id, input[i].timeout_ms)) /\ calls' = calls

\* The handler up to its first await: defaults, builder, client, POST.
Invoke(i) ==
    /\ server = "running"
    /\ i \in active
    /\ pc[i] = "idle"
    /\ \E toolName \in ToolNames :
        \E given \in RawInputs(toolName) :
            LET inp == ApplyDefaults(toolName, given)
                b == Build(toolName, inp)
            IN  /\ tool' = [tool EXCEPT ![i] = toolName]
                /\ rawInput' = [rawInput EXCEPT ![i] = given]
                /\ input' = [input EXCEPT ![i] = inp]
                /\ IF ~b.ok
                   THEN Throw(i, b.error) /\ UNCHANGED <<built, calls>>
                   ELSE /\ built' = [built EXCEPT ![i] = b]
                        /\ IF fromEnvThrows(envKey)
                           THEN Throw(i, ApiKeyError) /\ calls' = calls
                           ELSE /\ Call(i, PostRequest(b.endpoint, b.payload))
                                /\ Await(i, "awaitPost")
    /\ UNCHANGED <<server, envKey, active, now, createResponse, jobId, loopStart,
                   deadline, wakeAt, settled>>
    /\ UNCHANGED <<fn, arg, out>>

\* The create POST settles: job id, the no-wait return, the poller's start.
PostSettles(i) ==
    /\ pc[i] = "awaitPost"
    /\ \E outcome \in CreateOutcomes :
        \E latency \in Latencies :
            LET t == now + latency
                r == request(outcome)
                createJob == pickJob(r.value)
                id == ExtractJobId(createJob)
                initial == InitialOutcome(createJob)
                limit == Deadline(t, input[i].timeout_ms)
            IN  /\ now' = t
                /\ settled' = [settled EXCEPT ![i] = [op |-> "POST", outcome |-> outcome]]
                /\ IF r.threw
                   THEN /\ Throw(i, r.error)
                        /\ UNCHANGED <<createResponse, jobId, loopStart, deadline, calls>>
                   ELSE /\ createResponse' = [createResponse EXCEPT ![i] = r.value]
                        /\ jobId' = [jobId EXCEPT ![i] = id]
                        /\ IF ~Truthy(id)
                           THEN /\ Throw(i, MissingJobIdError(stringifyUnknown(r.value)))
                                /\ UNCHANGED <<loopStart, deadline, calls>>
                           ELSE IF ~ShouldWait(input[i])
                           THEN /\ Finish(i, CreatedResult(tool[i], input[i], built[i],
                                                           id, r.value))
                                /\ UNCHANGED <<loopStart, deadline, calls>>
                           ELSE IF initial.done
                           THEN /\ Finish(i, FinalResult(tool[i], input[i], built[i],
                                                         id, initial.outcome))
                                /\ UNCHANGED <<loopStart, deadline, calls>>
                           ELSE /\ loopStart' = [loopStart EXCEPT ![i] = t]
                                /\ deadline' = [deadline EXCEPT ![i] = limit]
                                /\ LoopHead(i, t, limit, id)
    /\ UNCHANGED <<server, envKey, active, tool, rawInput, input, built, wakeAt>>
    /\ UNCHANGED <<fn, arg, out>>

\* A getJob settles: return the terminal job, or start the sleep.
GetSettles(i) ==
    /\ pc[i] = "awaitGet"
    /\ \E outcome \in JobOutcomes :
        \E latency \in Latencies :
            LET t == now + latency
                r == request(outcome)
                job == pickJob(r.value)
                status == normalizeStatus(readString(job, <<"status">>))
            IN  /\ now' = t
                /\ settled' = [settled EXCEPT ![i] = [op |-> "GET", outcome |-> outcome]]
                /\ IF r.threw
                   THEN Throw(i, r.error) /\ UNCHANGED <<calls, wakeAt>>
                   ELSE IF ReturnsJob(status)
                   THEN /\ Finish(i, FinalResult(tool[i], input[i], built[i], jobId[i],
                                                 [job |-> job, rawResponse |-> r.value]))
                        /\ UNCHANGED <<calls, wakeAt>>
                   ELSE /\ Call(i, SleepCall(input[i].poll_interval_ms))
                        /\ wakeAt' = [wakeAt EXCEPT ![i] = t + input[i].poll_interval_ms]
                        /\ Await(i, "sleeping")
    /\ UNCHANGED <<server, envKey, active, tool, rawInput, input, built, createResponse, jobId,
                   loopStart, deadline>>
    /\ UNCHANGED <<fn, arg, out>>

\* sleep (kreaClient.ts 83-85): the timer fires no earlier than it is due
WakeTime(t, due) == Max(t, due)

\* The sleep ends: the loop test, then the next getJob or the timeout.
TimerFires(i) ==
    /\ pc[i] = "sleeping"
    /\ \E late \in Lateness :
        LET t == WakeTime(now, wakeAt[i]) + late
        IN  /\ now' = t
            /\ LoopHead(i, t, deadline[i], jobId[i])
    /\ UNCHANGED <<server, envKey, active, tool, rawInput, input, built, createResponse, jobId,
                   loopStart, deadline, wakeAt, settled>>
    /\ UNCHANGED <<fn, arg, out>>

Next ==
    \/ ServerConnects
    \/ ServerExits
    \/ \E i \in Invocations : Invoke(i)
    \/ \E i \in Invocations : PostSettles(i)
    \/ \E i \in Invocations : GetSettles(i)
    \/ \E i \in Invocations : TimerFires(i)

Spec == Init /\ [][Next]_vars

\* Every request settles and every timer fires.
FairSpec ==
    /\ Spec
    /\ \A i \in Invocations :
        /\ WF_vars(PostSettles(i))
        /\ WF_vars(GetSettles(i))
        /\ WF_vars(TimerFires(i))

(***************************************************************************)
(* Properties                                                              *)
(***************************************************************************)
TerminalNames == {S_completed, S_failed, S_cancelled}

\* the lower-cased status of a job record, "unknown" when it has no string status
StatusName(job) ==
    IF job.t = "object" /\ "status" \in DOMAIN job.o /\ job.o["status"].t = "string"
    THEN ToLowerCase(job.o["status"].s)
    ELSE S_unknown

\* the job record inside a response value: its "job" member, else itself
JobRecord(value) ==
    IF value.t \in {"object", "array"}
    THEN IF value.t = "object" /\ "job" \in DOMAIN value.o
            /\ value.o["job"].t \in {"object", "array"}
         THEN value.o["job"]
         ELSE value
    ELSE EmptyObject

Ended(i) == pc[i] \in {"returned", "failed"}

\* the create POST returned a job with an id, and the caller asked to wait
PollerCalled(i) ==
    /\ pc[i] \notin {"idle", "awaitPost"}
    /\ Truthy(jobId[i])
    /\ input[i].wait_for_completion

HttpCalls(i) == SelectSeq(calls[i], LAMBDA c : c.method \in {"POST", "GET"})

GetCalls(i) == SelectSeq(calls[i], LAMBDA c : c.method = "GET")

SleepCalls(i) == SelectSeq(calls[i], LAMBDA c : c.method = "sleep")

IsTimeout(error) ==
    error.message = "Job did not reach a terminal status within ms."

\* C1: when the job record returned at creation already has a status that
\* normalizes to completed, failed or cancelled, the poller returns that
\* record and the invocation has issued no getJob call and no sleep.
C1_TerminalAtCreation ==
    \A i \in Invocations :
        (PollerCalled(i) /\ StatusName(JobRecord(createResponse[i])) \in TerminalNames)
            => /\ pc[i] = "returned"
               /\ result[i].structuredContent.final_job = JobRecord(createResponse[i])
               /\ GetCalls(i) = <<>>
               /\ SleepCalls(i) = <<>>

C1_Witness ==
    \E i \in Invocations :
        /\ PollerCalled(i)
        /\ StatusName(JobRecord(createResponse[i])) = S_cancelled
        /\ pc[i] = "returned"
        /\ Len(calls[i]) = 1

\* the job a settled getJob delivered, when it delivered a 2xx response
FetchedTerminal(i) ==
    /\ settled[i].op = "GET"
    /\ settled[i].outcome.kind = "response"
    /\ settled[i].outcome.status \in 200..299
    /\ StatusName(JobRecord(ParseBody(settled[i].outcome.bodyText))) \in TerminalNames

\* C2: the first fetched job whose normalized status is terminal ends the
\* polling: the poller returns exactly that job record, nothing is called
\* after it, and no returned job record has a non-terminal status.
C2_FirstTerminalEndsPolling ==
    /\ [](\A i \in Invocations :
            /\ FetchedTerminal(i) =>
                /\ pc[i] = "returned"
                /\ result[i].structuredContent.final_job =
                       JobRecord(ParseBody(settled[i].outcome.bodyText))
            /\ (PollerCalled(i) /\ pc[i] = "returned") =>
                   StatusName(result[i].structuredContent.final_job) \in TerminalNames)
    /\ [][\A i \in Invocations :
            Ended(i) => /\ pc'[i] = pc[i]
                        /\ calls'[i] = calls[i]
                        /\ result'[i] = result[i]]_vars

C2_Witness ==
    \E i \in Invocations :
        /\ FetchedTerminal(i)
        /\ Len(GetCalls(i)) >= 2
        /\ pc[i] = "returned"
        /\ StatusName(result[i].structuredContent.final_job) = S_failed

\* C3: the timeout failure is raised only when the clock has reached the
\* deadline, which is the time the loop started plus timeoutMs and is fixed
\* while the loop runs, and the last fetched status was not terminal; the
\* error names the job id and timeoutMs.
C3_TimeoutOnlyAtDeadline ==
    \A i \in Invocations :
        /\ pc[i] \in {"awaitGet", "sleeping"} =>
               deadline[i] = loopStart[i] + input[i].timeout_ms
        /\ (pc[i] = "failed" /\ IsTimeout(err[i])) =>
            /\ now >= loopStart[i] + input[i].timeout_ms
            /\ deadline[i] = loopStart[i] + input[i].timeout_ms
            /\ ~FetchedTerminal(i)
            /\ err[i].jobId = jobId[i]
            /\ err[i].timeoutMs = input[i].timeout_ms

C3_Witness ==
    \E i \in Invocations :
        /\ pc[i] = "failed"
        /\ IsTimeout(err[i])
        /\ Len(GetCalls(i)) >= 2
        /\ now >= deadline[i]

\* C4: every poller run ends, and it ends in one of three ways: it returns
\* a terminal job record, it fails with the timeout error, or it fails with
\* the error of a getJob call.
C4_PollerEnds ==
    /\ [](\A i \in Invocations :
            (PollerCalled(i) /\ Ended(i)) =>
                \/ /\ pc[i] = "returned"
                   /\ StatusName(result[i].structuredContent.final_job) \in TerminalNames
                \/ pc[i] = "failed" /\ IsTimeout(err[i])
                \/ /\ pc[i] = "failed"
                   /\ settled[i].op = "GET"
                   /\ err[i].name \in {"KreaApiError", "TypeError"})
    /\ \A i \in Invocations :
            (pc[i] \in {"awaitGet", "sleeping"}) ~> Ended(i)

C4_Witness ==
    \E i \in Invocations :
        /\ PollerCalled(i)
        /\ pc[i] = "failed"
        /\ settled[i].op = "GET"
        /\ err[i].name = "KreaApiError"
        /\ Len(SleepCalls(i)) >= 1

\* C5: with wait_for_completion false the invocation makes no getJob call
\* and no sleep, and once the job is created it returns with the
\* normalized status of the created job record ("unknown" without a string
\* status); with wait_for_completion omitted it is true and the poller runs.
C5_WaitForCompletion ==
    \A i \in Invocations :
        pc[i] # "idle" =>
            /\ (Has(rawInput[i], "wait_for_completion")
                    /\ ~rawInput[i].wait_for_completion) =>
                /\ GetCalls(i) = <<>>
                /\ SleepCalls(i) = <<>>
                /\ Truthy(jobId[i]) =>
                    /\ pc[i] = "returned"
                    /\ result[i].structuredContent.status =
                           StatusName(JobRecord(createResponse[i]))
                    /\ result[i].structuredContent.wait_for_completion = FALSE
                    /\ result[i].structuredContent.create_response = createResponse[i]
            /\ ~Has(rawInput[i], "wait_for_completion") =>
                /\ input[i].wait_for_completion = TRUE
                /\ Truthy(jobId[i]) =>
                    /\ pc[i] = "returned" =>
                           "final_job" \in DOMAIN result[i].structuredContent
                    /\ StatusName(JobRecord(createResponse[i])) \notin TerminalNames =>
                           GetCalls(i) # <<>>

C5_Witness ==
    \E i \in Invocations :
        /\ pc[i] = "returned"
        /\ Has(rawInput[i], "wait_for_completion")
        /\ ~rawInput[i].wait_for_completion
        /\ result[i].structuredContent.status = S_unknown
        /\ Len(calls[i]) = 1

\* the modes in which each gated tuning parameter of the upscale tool is allowed
AllowedModes ==
    [sharpen |-> {"standard", "generative"},
     denoise |-> {"standard", "generative"},
     subject_detection |-> {"standard", "generative"},
     face_enhancement |-> {"standard", "generative"},
     face_enhancement_creativity |-> {"standard", "generative"},
     face_enhancement_strength |-> {"standard", "generative"},
     strength |-> {"standard"},
     fix_compression |-> {"standard"},
     texture |-> {"generative"},
     detail |-> {"generative"},
     creativity |-> {"generative", "bloom"},
     face_preservation |-> {"bloom"},
     color_preservation |-> {"bloom"}]

ModeModels(mode) ==
    CASE mode = "standard" ->
             {"Standard V2", "Low Resolution V2", "CGI", "High Fidelity V2", "Text Refine"}
      [] mode = "generative" -> {"Redefine", "Recovery", "Recovery V2", "Reimagine"}
      [] mode = "bloom" -> {"Reimagine"}

\* a generate input with a required field missing
InvalidGenerate(inp) ==
    LET required == KREA_IMAGE_MODELS[inp.model].requiredFields
    IN  \/ /\ Includes(required, "referenceImages")
           /\ (~Has(inp, "reference_images") \/ inp.reference_images = <<>>)
        \/ /\ Includes(required, "imageUrl")
           /\ (~Has(inp, "image_url") \/ inp.image_url = "")
        \/ /\ Includes(required, "width")
           /\ ~Has(inp, "width")
           /\ ~Has(KREA_IMAGE_MODELS[inp.model], "defaultWidth")
        \/ /\ Includes(required, "height")
           /\ ~Has(inp, "height")
           /\ ~Has(KREA_IMAGE_MODELS[inp.model], "defaultHeight")

\* an upscale input that breaks a rule of its mode
InvalidUpscale(inp) ==
    LET mode == IF Has(inp, "mode") THEN inp.mode ELSE "standard"
        ceiling == IF mode = "bloom" THEN 10000 ELSE 32000
    IN  \/ inp.width > ceiling
        \/ inp.height > ceiling
        \/ Has(inp, "model") /\ inp.model \notin ModeModels(mode)
        \/ \E p \in DOMAIN AllowedModes : Has(inp, p) /\ mode \notin AllowedModes[p]
        \/ Has(inp, "creativity") /\ mode = "generative" /\ inp.creativity \notin 1..6

InvalidInput(i) ==
    IF tool[i] = "krea_upscale_image" THEN InvalidUpscale(input[i])
    ELSE InvalidGenerate(input[i])

\* C6: an invocation whose input fails the builder's validation fails, and
\* it issues no HTTP request, neither the POST nor a GET.
C6_ValidationBeforeNetwork ==
    \A i \in Invocations :
        (pc[i] # "idle" /\ InvalidInput(i)) =>
            /\ pc[i] = "failed"
            /\ err[i].name = "Error"
            /\ err[i] # ApiKeyError
            /\ calls[i] = <<>>

C6_Witness ==
    \E i \in Invocations :
        /\ pc[i] = "failed"
        /\ tool[i] = "krea_generate_image"
        /\ InvalidInput(i)
        /\ Truthy(envKey)
        /\ calls[i] = <<>>

\* the create POST of invocation i came back with a 2xx response
PostReturned(i) ==
    \/ GetCalls(i) # <<>>
    \/ /\ pc[i] \notin {"idle", "awaitPost"}
       /\ settled[i].op = "POST"
       /\ settled[i].outcome.kind = "response"
       /\ settled[i].outcome.status \in 200..299

FieldOf(job, key) ==
    IF job.t = "object" /\ key \in DOMAIN job.o THEN job.o[key] ELSE Undef

NonEmptyString(value) == value.t = "string" /\ Len(value.s) > 0

MissingJobIdMessage == MissingJobIdError(Undef).message

\* C7: the job id is the created job record's string field id, else its
\* string field job_id; with neither a non-empty string the invocation
\* fails with the missing-job-id error, carrying the stringified raw create
\* response, and never polls; with either present it does not fail so.
C7_JobIdExtraction ==
    \A i \in Invocations :
        PostReturned(i) =>
            LET job == JobRecord(createResponse[i])
                id == FieldOf(job, "id")
                job_id == FieldOf(job, "job_id")
            IN  IF ~NonEmptyString(id) /\ ~NonEmptyString(job_id)
                THEN /\ pc[i] = "failed"
                     /\ err[i].message = MissingJobIdMessage
                     /\ err[i].details = stringifyUnknown(createResponse[i])
                     /\ GetCalls(i) = <<>>
                     /\ SleepCalls(i) = <<>>
                ELSE /\ err[i] = NoError \/ err[i].message # MissingJobIdMessage
                     /\ jobId[i] = IF IsString(id) THEN id ELSE job_id

\* the settled request of invocation i came back with a non-2xx status
NonOkSettled(i) ==
    /\ settled[i].op # "none"
    /\ settled[i].outcome.kind = "response"
    /\ settled[i].outcome.status \notin 200..299

\* C8: a response with a non-2xx status makes the call fail with
\* KreaApiError carrying the numeric status and a string form of the
\* parsed-or-raw body; the body is never returned as a normal result.
C8_NonOkResponsesFail ==
    \A i \in Invocations :
        NonOkSettled(i) =>
            /\ pc[i] = "failed"
            /\ result[i] = NoResult
            /\ err[i].name = "KreaApiError"
            /\ err[i].status = settled[i].outcome.status
            /\ IsString(err[i].body)

\* the settled request of invocation i was rejected by the network
RejectedSettled(i) ==
    settled[i].op # "none" /\ settled[i].outcome.kind = "rejected"

IsHttp(call) == call.method \in {"POST", "GET"}

\* C9: a failed request ends the invocation at once with that error: no
\* result, no further request, and no request is ever issued twice in a row.
C9_NoRetries ==
    \A i \in Invocations :
        /\ (NonOkSettled(i) \/ RejectedSettled(i)) =>
            /\ pc[i] = "failed"
            /\ result[i] = NoResult
            /\ IF RejectedSettled(i) THEN err[i] = FetchError
               ELSE /\ err[i].name = "KreaApiError"
                    /\ err[i].status = settled[i].outcome.status
            /\ calls[i][Len(calls[i])].method = settled[i].op
            /\ settled[i].op = "POST" => Len(calls[i]) = 1
        /\ Len(SelectSeq(calls[i], LAMBDA call : call.method = "POST")) <= 1
        /\ \A k \in 1..(Len(calls[i]) - 1) :
               IsHttp(calls[i][k]) => calls[i][k + 1].method # calls[i][k].method

C9_Witness ==
    \E i \in Invocations :
        /\ RejectedSettled(i)
        /\ settled[i].op = "GET"
        /\ pc[i] = "failed"
        /\ now < deadline[i]
        /\ Len(SleepCalls(i)) >= 1

\* C10 as stated: without the API key the server does not run, and no
\* invocation ever fails for the missing key.
C10_Original ==
    /\ ~Truthy(envKey) => server # "running"
    /\ \A i \in Invocations : err[i] # ApiKeyError

\* C10: the bootstrap does not check the API key; an invocation whose input
\* passes validation fails with the missing-key error, before any HTTP
\* request, exactly when the key is unset or empty.
C10_MissingKeyPerCall ==
    \A i \in Invocations :
        (pc[i] # "idle" /\ ~InvalidInput(i)) =>
            IF Truthy(envKey)
            THEN err[i] # ApiKeyError /\ calls[i] # <<>>
            ELSE /\ server = "running"
                 /\ pc[i] = "failed"
                 /\ err[i] = ApiKeyError
                 /\ calls[i] = <<>>

C10_Witness ==
    \E i \in Invocations :
        /\ server = "running"
        /\ ~Truthy(envKey)
        /\ pc[i] = "failed"
        /\ err[i] = ApiKeyError
        /\ ~InvalidInput(i)
        /\ calls[i] = <<>>

(***************************************************************************)
(* Concurrent invocations: the host has two invocations in flight at       *)
(* once, and their handlers interleave at their awaits.  The inputs and    *)
(* the vendor's answers are a part of those of a single invocation.        *)
(***************************************************************************)
ConcurrentInputs ==
    { [model |-> "flux_1_1_pro", prompt |-> "a cat", width |-> 512, timeout_ms |-> 5000],
      [mode |-> "bloom", image_url |-> "https://u.test/in.png", width |-> 10000,
       height |-> 10000, creativity |-> 9, face_preservation |-> TRUE,
       wait_for_completion |-> TRUE, poll_interval_ms |-> 3000, timeout_ms |-> 6000] }

ConcurrentOutcomes ==
    { Response(200, JsonTextOf(CreatePending)), Response(200, JsonTextOf(CreateWrapped)),
      Response(200, JsonTextOf(JobRunning)), Response(200, JsonTextOf(JobCompleted)),
      Response(500, JStr(<<"B","a","d"," ","G","a","t","e","w","a","y">>)) }

\* the inputs and answers of a concurrent run
ConcurrentData ==
    \A i \in Invocations :
        /\ pc[i] # "idle" => rawInput[i] \in ConcurrentInputs
        /\ settled[i].op # "none" => settled[i].outcome \in ConcurrentOutcomes

ConcurrentInit ==
    /\ InitWith({1, 2})
    /\ Truthy(envKey)
    /\ fn = "none"
    /\ arg = <<>>
    /\ out = NotApplied

\* in a concurrent run the clock moves with the timers only: a request
\* settles at once, and a timer fires when it is due, or at once when the
\* other invocation has made it overdue
ConcurrentTiming ==
    \A i \in Invocations :
        /\ (pc[i] = "sleeping" /\ pc'[i] # "sleeping") => now' = Max(now, wakeAt[i])
        /\ (pc[i] \in {"awaitPost", "awaitGet"} /\ pc'[i] # pc[i]) => now' = now

ConcurrentNext == Next /\ ConcurrentData' /\ ConcurrentTiming

ConcurrentSpec == ConcurrentInit /\ [][ConcurrentNext]_vars

(***************************************************************************)
(* The builders and helpers applied on their own, outside a server run:    *)
(* the argument is drawn at the start and one step applies the function.   *)
(***************************************************************************)
serverVars ==
    <<server, envKey, active, now, pc, tool, rawInput, input, built, createResponse,
      jobId, loopStart, deadline, wakeAt, result, err, calls, settled>>

\* no server run: nothing is invoked
NoServerRun == InitWith({}) /\ envKey = Undef

\* an optional field: not supplied, or supplied with one of the values
Optional(field, values) == {<<>>} \cup {field :> v : v \in values}

RECURSIVE StringsUpTo(_, _)
StringsUpTo(chars, n) ==
    IF n = 0 THEN {<<>>}
    ELSE LET shorter == StringsUpTo(chars, n - 1)
         IN  shorter \cup {Append(text, c) : text \in shorter, c \in chars}

SizeAlphabet == {"0", "2", "x"}

\* the longest size string drawn from the alphabet
MaxSizeLen == 4

SizeStrings ==
    StringsUpTo(SizeAlphabet, MaxSizeLen)
        \cup {<<"2","X","2">>, <<" ","2","x","2">>, <<"2","x","2"," ">>, <<"2","x","-","2">>}

\* arguments of the generate builder: any model, with and without explicit
\* dimensions, a size string, reference images and an image url
GenerateArgs ==
    {[model |-> m, prompt |-> "a cat"] @@ w @@ h @@ sz :
        m \in MODEL_KEYS, w \in Optional("width", {512}), h \in Optional("height", {768}),
        sz \in Optional("size", SizeStrings)}
    \cup
    {[model |-> m, prompt |-> "a cat"] @@ w @@ h @@ r @@ u :
        m \in MODEL_KEYS, w \in Optional("width", {512}), h \in Optional("height", {768}),
        r \in Optional("reference_images",
                       {<<>>, <<"https://r.test/1.png">>,
                        <<"https://r.test/1.png", "https://r.test/2.png">>}),
        u \in Optional("image_url", {"", "https://u.test/in.png"})}

\* model definitions beyond the catalog: any required fields, with and
\* without default dimensions
ModelDefinitions ==
    {[title |-> "Custom", endpoint |-> "/generate/image/custom", requiredFields |-> required]
        @@ dw @@ dh :
        required \in {<<>>, <<"prompt">>, <<"prompt", "width", "height">>,
                      <<"height", "width">>, <<"imageUrl", "referenceImages", "prompt">>,
                      <<"prompt", "width", "height", "referenceImages", "imageUrl">>},
        dw \in Optional("defaultWidth", {1024}), dh \in Optional("defaultHeight", {1024})}

\* arguments of validateInputByModel: an input and a model definition
ValidateArgs ==
    {[input |-> [model |-> "custom", prompt |-> "a cat"] @@ w @@ h @@ r @@ u, model |-> md] :
        w \in Optional("width", {512}), h \in Optional("height", {768}),
        r \in Optional("reference_images", {<<>>, <<"https://r.test/1.png">>}),
        u \in Optional("image_url", {"", "https://u.test/in.png"}),
        md \in ModelDefinitions}

GenerateInit ==
    /\ NoServerRun
    /\ out = NotApplied
    /\ \/ fn = "generate" /\ arg \in GenerateArgs
       \/ fn = "validate" /\ arg \in ValidateArgs

\* validateInputByModel(input, model) and buildPayload(input, model)
ApplyGenerate ==
    /\ fn = "generate"
    /\ ~out.done
    /\ out' = [done |-> TRUE,
               error |-> validateInputByModel(arg, KREA_IMAGE_MODELS[arg.model]),
               payload |-> buildPayload(arg, KREA_IMAGE_MODELS[arg.model])]
    /\ UNCHANGED <<serverVars, fn, arg>>

\* validateInputByModel(input, model) for any model definition
ApplyValidate ==
    /\ fn = "validate"
    /\ ~out.done
    /\ out' = [done |-> TRUE, error |-> validateInputByModel(arg.input, arg.model)]
    /\ UNCHANGED <<serverVars, fn, arg>>

GenerateNext == ApplyGenerate \/ ApplyValidate

GenerateSpec == GenerateInit /\ [][GenerateNext]_vars

\* a value for each tuning parameter of the upscale tool
UpscaleTuning ==
    [batch_size |-> 2, seed |-> 7, prompt |-> "sharper", output_format |-> "png",
     crop_to_fill |-> TRUE, upscaling_activated |-> TRUE, image_scaling_factor |-> 2,
     sharpen |-> 1, denoise |-> 1, subject_detection |-> "All", face_enhancement |-> TRUE,
     face_enhancement_creativity |-> 1, face_enhancement_strength |-> 1, strength |-> 1,
     fix_compression |-> 1, texture |-> 3, detail |-> 1, creativity |-> 3,
     face_preservation |-> TRUE, color_preservation |-> FALSE]

\* the parameters the builder copies in every mode
UngatedFields ==
    {"batch_size", "seed", "prompt", "output_format", "crop_to_fill", "upscaling_activated",
     "image_scaling_factor"}

GatedFields == DOMAIN UpscaleTuning \ UngatedFields

Supplied(fields) == [f \in fields |-> UpscaleTuning[f]]

UpscaleBase(width, height) ==
    [image_url |-> "https://u.test/in.png", width |-> width, height |-> height]

\* widths and heights around the two ceilings
UpscaleDimensions ==
    {1, BLOOM_MAX_DIMENSION - 1, BLOOM_MAX_DIMENSION, BLOOM_MAX_DIMENSION + 1,
     DEFAULT_MAX_DIMENSION - 1, DEFAULT_MAX_DIMENSION, DEFAULT_MAX_DIMENSION + 1}

UpscaleModelNames ==
    UPSCALE_STANDARD_MODELS \cup UPSCALE_GENERATIVE_MODELS
        \cup {"", "standard v2", "Bloom", "Gigapixel"}

\* arguments of the upscale builder: every combination of gated parameters in
\* every mode, every pair of dimensions, every model name, every creativity
UpscaleArgs ==
    {UpscaleBase(1024, 1024) @@ [mode |-> m] @@ Supplied(gated \cup ungated) :
        m \in UPSCALE_MODES, gated \in SUBSET GatedFields, ungated \in {{}, UngatedFields}}
    \cup
    {UpscaleBase(w, h) @@ m :
        w \in UpscaleDimensions, h \in UpscaleDimensions, m \in Optional("mode", UPSCALE_MODES)}
    \cup
    {UpscaleBase(w, 1024) @@ [mode |-> m, creativity |-> c] @@ md :
        w \in {1024, DEFAULT_MAX_DIMENSION + 1}, m \in UPSCALE_MODES,
        c \in 1..SCHEMA_MAX_CREATIVITY, md \in Optional("model", UpscaleModelNames)}
    \cup
    {UpscaleBase(1024, 1024) @@ m @@ md :
        m \in Optional("mode", UPSCALE_MODES), md \in Optional("model", UpscaleModelNames)}

UpscaleInit ==
    /\ NoServerRun
    /\ fn = "upscale"
    /\ arg \in UpscaleArgs
    /\ out = NotApplied

\* buildUpscaleRequest(input)
ApplyUpscale ==
    /\ fn = "upscale"
    /\ ~out.done
    /\ out' = [done |-> TRUE, built |-> buildUpscaleRequest(arg)]
    /\ UNCHANGED <<serverVars, fn, arg>>

UpscaleSpec == UpscaleInit /\ [][ApplyUpscale]_vars

UrlUpper == JStr(<<"H","T","T","P","S",":","/","/","X",".","t","e","s","t","/","I",".","P","N","G">>)

\* the string leaves and the other leaves of the JSON values below
JsonLeaves ==
    {Url1, Url2, UrlUpper, FtpUrl, NotAUrl, JStr(<<>>), JStr(<<"h","t","t","p","s",":","/","/">>), JStr(<<"x",".","t","e","s","t","/","i",".","p","n","g">>),
     JNum(1), JBool(TRUE), JNull}

\* the longest array drawn
MaxArrayLen == 2

ArraysOf(values) ==
    {JArr(a) : a \in UNION {[1..n -> values] : n \in 0..MaxArrayLen}}

ObjectKeys == {"url", "https://k.test/k.png"}

ObjectsOf(values) ==
    {JObj(o) : o \in UNION {[keys -> values] : keys \in SUBSET ObjectKeys}}

\* extractUrls example of the specification: nested array and object
NestedExample ==
    JObj([a |-> Url1, b |-> JArr(<<NotAUrl, Url2>>), c |-> JObj([d |-> FtpUrl])])

\* values to nest further
InnerValues ==
    {Url1, FtpUrl, JNum(1), JArr(<<>>), JArr(<<Url1, Url2>>), JObj([url |-> Url2]),
     JObj([url |-> JArr(<<Url1, NotAUrl>>)]), NestedExample}

JsonValues ==
    LET level1 == ArraysOf(JsonLeaves) \cup ObjectsOf(JsonLeaves)
        level2 == ArraysOf(InnerValues) \cup ObjectsOf(InnerValues)
        level3 == {JArr(<<v, Url2>>) : v \in level2} \cup {JObj([result |-> v]) : v \in level2}
    IN  JsonLeaves \cup {Undef, NestedExample} \cup level1 \cup level2 \cup level3

\* the upper-case form of a lower-case letter
UpperChar(c) == UpperChars[CHOOSE k \in 1..Len(LowerChars) : LowerChars[k] = c]

RECURSIVE CaseVariants(_)
\* every spelling of a lower-case word in upper and lower case
CaseVariants(word) ==
    IF word = <<>> THEN {<<>>}
    ELSE {<<c>> \o rest : c \in {Head(word), UpperChar(Head(word))},
                          rest \in CaseVariants(Tail(word))}

\* the status field of a job record: a string in any case, or another value
StatusValues ==
    {JStr(text) : text \in CaseVariants(S_failed) \cup CaseVariants(S_unknown)}
    \cup {JStr(S_completed), JStr(<<"C","O","M","P","L","E","T","E","D">>), JStr(<<"C","o","m","p","l","e","t","e","d">>), JStr(<<"c","o","m","p","L","e","t","e","D">>),
          JStr(S_cancelled), JStr(<<"C","A","N","C","E","L","L","E","D">>), JStr(<<"C","a","n","c","e","l","l","e","d">>), JStr(<<"c","a","n","c","e","l","e","d">>),
          JStr(<<"c","o","m","p","l","e","t","e">>), JStr(<<"c","o","m","p","l","e","t","e","d"," ">>), JStr(<<" ","f","a","i","l","e","d">>), JStr(<<"r","u","n","n","i","n","g">>),
          JStr(<<"Q","u","e","u","e","d">>), JStr(<<"s","u","c","c","e","e","d","e","d">>), JStr(<<>>),
          JNum(1), JBool(TRUE), JNull, JArr(<<JStr(S_completed)>>),
          JObj([status |-> JStr(S_completed)])}

\* job records with and without a status field
StatusJobs ==
    {JObj([id |-> Id1, status |-> v]) : v \in StatusValues}
        \cup {JObj([id |-> Id1]), EmptyObject}

HelperInit ==
    /\ NoServerRun
    /\ out = NotApplied
    /\ \/ fn = "extractHttpUrls" /\ arg \in JsonValues
       \/ fn = "status" /\ arg \in StatusJobs

\* extractHttpUrls(value)
ApplyExtract ==
    /\ fn = "extractHttpUrls"
    /\ ~out.done
    /\ out' = [done |-> TRUE, urls |-> extractHttpUrls(arg)]
    /\ UNCHANGED <<serverVars, fn, arg>>

\* isTerminalStatus(normalizeStatus(readString(job, "status")))
ApplyStatus ==
    /\ fn = "status"
    /\ ~out.done
    /\ LET status == normalizeStatus(readString(arg, <<"status">>))
       IN  out' = [done |-> TRUE, status |-> status, terminal |-> isTerminalStatus(status)]
    /\ UNCHANGED <<serverVars, fn, arg>>

HelperNext == ApplyExtract \/ ApplyStatus

HelperSpec == HelperInit /\ [][HelperNext]_vars

(***************************************************************************)
(* Properties of the builders and helpers                                  *)
(***************************************************************************)
RECURSIVE Decimal(_)
\* the decimal numeral of a natural number
Decimal(n) ==
    IF n < 10 THEN <<DigitChars[n + 1]>>
    ELSE Append(Decimal(n \div 10), DigitChars[(n % 10) + 1])

\* the positive numbers whose numeral is written in the size alphabet
SizeNumbers ==
    {n \in 1..999 : \A k \in 1..Len(Decimal(n)) : Decimal(n)[k] \in SizeAlphabet}

\* every well-formed WxH string over the size alphabet, with its numbers
WellFormedSizes ==
    {[text |-> Decimal(w) \o <<"x">> \o Decimal(h), width |-> w, height |-> h] :
        w \in SizeNumbers, h \in SizeNumbers}

\* the numbers a size string stands for: empty, or one record
SizeOf(inp) ==
    IF "size" \in DOMAIN inp THEN {sz \in WellFormedSizes : sz.text = inp.size} ELSE {}

\* the field of a record as a set: empty when absent
FieldSet(rec, field) == IF field \in DOMAIN rec THEN {rec[field]} ELSE {}

\* what the precedence rule gives for one axis
ExpectedDimension(inp, axis, defaultName) ==
    LET model == KREA_IMAGE_MODELS[inp.model]
    IN  IF axis \in DOMAIN inp THEN {inp[axis]}
        ELSE IF SizeOf(inp) # {} THEN {sz[axis] : sz \in SizeOf(inp)}
        ELSE IF Includes(model.requiredFields, axis) THEN FieldSet(model, defaultName)
        ELSE {}

DefaultedModels == {"flux_1_1_pro", "seedream_4", "zimage"}

\* C11: payload.width is the explicit width, else the width of a well-formed
\* WxH size string, else the model's defaultWidth when width is required,
\* else absent; height likewise and independently.  flux_1_1_pro, seedream_4
\* and zimage get 1024x1024 with no dimensions given, and 512x1024 with only
\* width 512 given.
C11_DimensionPrecedence ==
    (fn = "generate" /\ out.done) =>
        /\ FieldSet(out.payload, "width") = ExpectedDimension(arg, "width", "defaultWidth")
        /\ FieldSet(out.payload, "height") = ExpectedDimension(arg, "height", "defaultHeight")
        /\ (arg.model \in DefaultedModels /\ DOMAIN arg \cap {"width", "height", "size"} = {})
               => out.payload.width = 1024 /\ out.payload.height = 1024
        /\ (arg.model \in DefaultedModels /\ DOMAIN arg \cap {"width", "height", "size"} = {"width"})
               => out.payload.width = 512 /\ out.payload.height = 1024

C11_Witness ==
    /\ fn = "generate"
    /\ out.done
    /\ arg.model = "flux_1_dev"
    /\ "width" \notin DOMAIN arg
    /\ "height" \in DOMAIN arg
    /\ "size" \in DOMAIN arg
    /\ arg.size = <<"2","0","x","2">>
    /\ out.payload.width = 20
    /\ out.payload.height = 768

\* absent, or the given empty value (the empty list, the empty string)
AbsentOrEmpty(inp, field, empty) == field \notin DOMAIN inp \/ inp[field] = empty

\* the input names of the required fields that an input leaves missing
MissingNames(inp, model) ==
    LET required == {model.requiredFields[k] : k \in 1..Len(model.requiredFields)}
    IN  {name \in {"width"} :
            "width" \in required /\ "width" \notin DOMAIN inp
                /\ "defaultWidth" \notin DOMAIN model}
        \cup {name \in {"height"} :
            "height" \in required /\ "height" \notin DOMAIN inp
                /\ "defaultHeight" \notin DOMAIN model}
        \cup {name \in {"reference_images"} :
            "referenceImages" \in required /\ AbsentOrEmpty(inp, "reference_images", <<>>)}
        \cup {name \in {"image_url"} :
            "imageUrl" \in required /\ AbsentOrEmpty(inp, "image_url", "")}

\* C12: validateInputByModel fails iff a required field of the model is
\* missing; its one error lists every missing field and the model's full
\* requirement list, and never reports prompt.
C12_ValidationAccumulates ==
    (fn = "validate" /\ out.done) =>
        LET missing == MissingNames(arg.input, arg.model)
        IN  IF missing = {} THEN out.error = NoError
            ELSE /\ out.error # NoError
                 /\ {out.error.missing[k] : k \in 1..Len(out.error.missing)} = missing
                 /\ Len(out.error.missing) = Cardinality(missing)
                 /\ out.error.requires = arg.model.requiredFields
                 /\ out.error.model = arg.input.model
                 /\ \A k \in 1..Len(out.error.missing) : out.error.missing[k] # "prompt"

C12_Witness ==
    /\ fn = "validate"
    /\ out.done
    /\ out.error # NoError
    /\ Len(out.error.missing) = 4
    /\ Includes(arg.model.requiredFields, "prompt")

ModeOf(inp) == IF "mode" \in DOMAIN inp THEN inp.mode ELSE "standard"

\* the endpoint of each mode
ModeEndpoint ==
    [standard |-> "/generate/enhance/topaz/standard-enhance",
     generative |-> "/generate/enhance/topaz/generative-enhance",
     bloom |-> "/generate/enhance/topaz/bloom-enhance"]

ModeCeiling == [standard |-> 32000, generative |-> 32000, bloom |-> 10000]

OverCeiling(inp) ==
    inp.width > ModeCeiling[ModeOf(inp)] \/ inp.height > ModeCeiling[ModeOf(inp)]

WrongModel(inp) == "model" \in DOMAIN inp /\ inp.model \notin ModeModels(ModeOf(inp))

\* the supplied parameters that the mode does not allow
Disallowed(inp) ==
    {p \in DOMAIN AllowedModes : p \in DOMAIN inp /\ ModeOf(inp) \notin AllowedModes[p]}

CreativityOutOfRange(inp) ==
    "creativity" \in DOMAIN inp /\ ModeOf(inp) = "generative" /\ inp.creativity \notin 1..6

\* C13: the mode fixes the endpoint, one distinct path per mode, and the
\* ceiling: the builder fails when width or height exceeds 10000 in bloom
\* mode or 32000 in the other modes, it does not fail for dimensions up to
\* and including the ceiling when nothing else is violated.
C13_ModeCeiling ==
    (fn = "upscale" /\ out.done) =>
        /\ OverCeiling(arg) =>
            /\ ~out.built.ok
            /\ out.built.error.maxDimension = ModeCeiling[ModeOf(arg)]
            /\ out.built.error.mode = ModeOf(arg)
        /\ (~OverCeiling(arg) /\ ~WrongModel(arg) /\ Disallowed(arg) = {}
                /\ ~CreativityOutOfRange(arg)) => out.built.ok
        /\ out.built.ok =>
            /\ out.built.mode = ModeOf(arg)
            /\ out.built.endpoint = ModeEndpoint[ModeOf(arg)]
            /\ out.built.payload.width = arg.width
            /\ out.built.payload.height = arg.height
        /\ \A m1, m2 \in UPSCALE_MODES : ModeEndpoint[m1] = ModeEndpoint[m2] => m1 = m2

C13_Witness ==
    /\ fn = "upscale"
    /\ out.done
    /\ ModeOf(arg) = "bloom"
    /\ arg.width = 10000
    /\ arg.height = 10000
    /\ out.built.ok
    /\ out.built.endpoint = "/generate/enhance/topaz/bloom-enhance"

\* the payload model of each mode when none is given
DefaultModel == [standard |-> "Standard V2", generative |-> "Redefine", bloom |-> "Reimagine"]

\* nothing but the model can make the builder fail
OnlyModelMatters(inp) ==
    ~OverCeiling(inp) /\ Disallowed(inp) = {} /\ ~CreativityOutOfRange(inp)

\* C14: with no model given the payload model is the mode's default; an
\* explicit model is accepted iff it is in the mode's set (5 standard names,
\* 4 generative names, only "Reimagine" for bloom); a successful payload's
\* model is always in the mode's set.
C14_ModelResolution ==
    (fn = "upscale" /\ out.done) =>
        /\ (OnlyModelMatters(arg) /\ "model" \notin DOMAIN arg) =>
            out.built.ok /\ out.built.payload.model = DefaultModel[ModeOf(arg)]
        /\ (OnlyModelMatters(arg) /\ "model" \in DOMAIN arg) =>
            /\ out.built.ok <=> arg.model \in ModeModels(ModeOf(arg))
            /\ out.built.ok => out.built.payload.model = arg.model
        /\ (~OverCeiling(arg) /\ WrongModel(arg)) => ~out.built.ok
        /\ out.built.ok =>
            /\ out.built.payload.model \in ModeModels(ModeOf(arg))
            /\ out.built.normalizedModel = out.built.payload.model
        /\ Cardinality(ModeModels("standard")) = 5
        /\ Cardinality(ModeModels("generative")) = 4
        /\ ModeModels("bloom") = {"Reimagine"}

C14_Witness ==
    /\ fn = "upscale"
    /\ out.done
    /\ ModeOf(arg) = "standard"
    /\ OnlyModelMatters(arg)
    /\ "model" \in DOMAIN arg
    /\ arg.model = "Reimagine"
    /\ ~out.built.ok

\* the payload key of a tuning parameter
PayloadKey(p) == IF p = "batch_size" THEN "batchSize" ELSE p

TuningSupplied(inp) == DOMAIN inp \cap DOMAIN UpscaleTuning

\* C15: the builder never drops a supplied tuning parameter: it fails, or
\* its payload carries every supplied parameter with its value and nothing
\* that was not supplied; it fails whenever a supplied parameter is not
\* allowed in the mode, and a payload never carries a disallowed parameter.
C15_NoSilentDrop ==
    (fn = "upscale" /\ out.done) =>
        /\ Disallowed(arg) # {} => ~out.built.ok
        /\ out.built.ok =>
            /\ \A p \in TuningSupplied(arg) :
                /\ PayloadKey(p) \in DOMAIN out.built.payload
                /\ out.built.payload[PayloadKey(p)] = arg[p]
            /\ DOMAIN out.built.payload =
                   {"width", "height", "image_url", "model"}
                       \cup {PayloadKey(p) : p \in TuningSupplied(arg)}
            /\ \A p \in DOMAIN AllowedModes :
                   p \in DOMAIN out.built.payload => ModeOf(arg) \in AllowedModes[p]
        /\ (~OverCeiling(arg) /\ ~WrongModel(arg) /\ Disallowed(arg) = {}
                /\ ~CreativityOutOfRange(arg)) => out.built.ok

C15_Witness ==
    /\ fn = "upscale"
    /\ out.done
    /\ ModeOf(arg) = "generative"
    /\ out.built.ok
    /\ Cardinality(DOMAIN arg \cap GatedFields) = 9
    /\ UngatedFields \subseteq DOMAIN arg
    /\ out.built.payload.batchSize = 2
    /\ out.built.payload.texture = 3

\* nothing but creativity can make the builder fail
OnlyCreativityMatters(inp) ==
    /\ "creativity" \in DOMAIN inp
    /\ ~OverCeiling(inp)
    /\ ~WrongModel(inp)
    /\ Disallowed(inp) \subseteq {"creativity"}

\* C16: a supplied creativity fails in standard mode; in generative mode it
\* is accepted iff it is between 1 and 6; in bloom mode every creativity
\* from 1 to 9 is accepted; an accepted creativity is copied to the payload.
C16_Creativity ==
    (fn = "upscale" /\ out.done /\ "creativity" \in DOMAIN arg) =>
        /\ ModeOf(arg) = "standard" => ~out.built.ok
        /\ (ModeOf(arg) = "generative" /\ OnlyCreativityMatters(arg)) =>
               (out.built.ok <=> arg.creativity \in 1..6)
        /\ (ModeOf(arg) = "generative" /\ arg.creativity > 6) => ~out.built.ok
        /\ (ModeOf(arg) = "bloom" /\ OnlyCreativityMatters(arg) /\ arg.creativity \in 1..9) =>
               out.built.ok
        /\ out.built.ok => out.built.payload.creativity = arg.creativity

C16_Witness ==
    /\ fn = "upscale"
    /\ out.done
    /\ ModeOf(arg) = "generative"
    /\ "creativity" \in DOMAIN arg
    /\ arg.creativity = 6
    /\ out.built.ok
    /\ out.built.payload.creativity = 6

\* the builder rejects the input because of a parameter's mode
RejectedForMode(inp) ==
    /\ ~OverCeiling(inp)
    /\ ~WrongModel(inp)
    /\ ~CreativityOutOfRange(inp)
    /\ Disallowed(inp) # {}

Parts(message) == {message[k] : k \in 1..Len(message)}

\* C17 as stated: a rejection because of the mode names the offending
\* parameter and the modes in which that parameter is allowed.
C17_Original ==
    (fn = "upscale" /\ out.done /\ RejectedForMode(arg)) =>
        /\ ~out.built.ok
        /\ \E p \in Disallowed(arg) :
            /\ p \in Parts(out.built.error.message)
            /\ Parts(out.built.error.message) \cap UPSCALE_MODES = AllowedModes[p]

\* the parameters allowed everywhere but in bloom mode
BloomRejected ==
    {"sharpen", "denoise", "subject_detection", "face_enhancement",
     "face_enhancement_creativity", "face_enhancement_strength"}

\* C17: a rejection because of the mode names an offending parameter; for
\* the six parameters rejected only in bloom mode it names bloom, the mode
\* that does not support them, and for every other gated parameter it names
\* the modes in which the parameter is allowed.
C17_GatingErrorsNameParameter ==
    (fn = "upscale" /\ out.done /\ RejectedForMode(arg)) =>
        /\ ~out.built.ok
        /\ \E p \in Disallowed(arg) :
            /\ p \in Parts(out.built.error.message)
            /\ IF p \in BloomRejected
               THEN /\ " is not supported in " \in Parts(out.built.error.message)
                    /\ Parts(out.built.error.message) \cap UPSCALE_MODES = {"bloom"}
                    /\ ModeOf(arg) = "bloom"
               ELSE /\ " is only supported in " \in Parts(out.built.error.message)
                    /\ Parts(out.built.error.message) \cap UPSCALE_MODES = AllowedModes[p]

C17_Witness ==
    /\ fn = "upscale"
    /\ out.done
    /\ ModeOf(arg) = "bloom"
    /\ DOMAIN arg \cap GatedFields = {"sharpen"}
    /\ ~out.built.ok
    /\ out.built.error.message = <<"sharpen", " is not supported in ", "bloom", " mode.">>

RECURSIVE StringLeaves(_)
\* the strings at the leaves of a JSON value: elements of arrays and values
\* of objects at any depth, never the keys
StringLeaves(value) ==
    IF value.t = "string" THEN {value}
    ELSE IF value.t = "array"
         THEN UNION {StringLeaves(value.a[k]) : k \in 1..Len(value.a)}
    ELSE IF value.t = "object"
         THEN UNION {StringLeaves(value.o[k]) : k \in DOMAIN value.o}
    ELSE {}

\* the strings of the values above that are absolute http or https URLs
HttpUrlStrings == {Url1, Url2, UrlUpper}

\* C18: extractHttpUrls returns exactly the distinct string leaves, at any
\* depth in arrays and objects, that are absolute http:// or https:// URLs;
\* other strings, numbers, booleans and null add nothing, a URL is returned
\* once, and keys are never collected.
C18_ExtractHttpUrls ==
    (fn = "extractHttpUrls" /\ out.done) =>
        /\ {out.urls[k] : k \in 1..Len(out.urls)} = StringLeaves(arg) \cap HttpUrlStrings
        /\ \A j, k \in 1..Len(out.urls) : out.urls[j] = out.urls[k] => j = k

C18_Witness ==
    /\ fn = "extractHttpUrls"
    /\ out.done
    /\ arg = NestedExample
    /\ {out.urls[k] : k \in 1..Len(out.urls)} = {Url1, Url2}
    /\ Len(out.urls) = 2

\* the letter in the other case
OtherCase(c) ==
    IF \E k \in 1..Len(LowerChars) : LowerChars[k] = c
    THEN UpperChars[CHOOSE k \in 1..Len(LowerChars) : LowerChars[k] = c]
    ELSE c

\* text spells word, in any letter case
Spells(text, word) ==
    /\ Len(text) = Len(word)
    /\ \A k \in 1..Len(word) : text[k] \in {word[k], OtherCase(word[k])}

\* C19: a job record is terminal iff its status is a string that spells
\* completed, failed or cancelled in any letter case; a missing or
\* non-string status normalizes to "unknown"; "unknown" and every other
\* string are not terminal.
C19_TerminalClassification ==
    (fn = "status" /\ out.done) =>
        LET status == FieldOf(arg, "status")
        IN  /\ out.terminal <=>
                   /\ status.t = "string"
                   /\ \E word \in TerminalNames : Spells(status.s, word)
            /\ status.t # "string" => out.status = S_unknown /\ ~out.terminal
            /\ status.t = "string" => Spells(status.s, out.status)
            /\ out.status = S_unknown => ~out.terminal

C19_Witness ==
    /\ fn = "status"
    /\ out.done
    /\ FieldOf(arg, "status") = JStr(<<"c","o","m","p","L","e","t","e","D">>)
    /\ out.status = S_completed
    /\ out.terminal

\* everything invocation i has read, computed and done
Local(i) ==
    <<pc[i], tool[i], rawInput[i], input[i], built[i], createResponse[i], jobId[i],
      loopStart[i], deadline[i], wakeAt[i], result[i], err[i], calls[i], settled[i]>>

\* what invocation i alone makes of the input it was given and of the
\* answers it received
OwnInput(i) == ApplyDefaults(tool[i], rawInput[i])

OwnBuilt(i) == Build(tool[i], OwnInput(i))

OwnJobId(i) == ExtractJobId(pickJob(createResponse[i]))

OwnResult(i) ==
    IF ~ShouldWait(OwnInput(i))
    THEN CreatedResult(tool[i], OwnInput(i), OwnBuilt(i), OwnJobId(i), createResponse[i])
    ELSE IF GetCalls(i) = <<>>
    THEN FinalResult(tool[i], OwnInput(i), OwnBuilt(i), OwnJobId(i),
                     InitialOutcome(pickJob(createResponse[i])).outcome)
    ELSE LET answer == request(settled[i].outcome).value
         IN  FinalResult(tool[i], OwnInput(i), OwnBuilt(i), OwnJobId(i),
                         [job |-> pickJob(answer), rawResponse |-> answer])

\* C20: with invocations interleaved at their awaits, each one's payload,
\* job id, getJob targets, deadline and result are what its own input and
\* its own vendor answers give, and no step of one invocation changes
\* anything of another.
C20_Independence ==
    /\ [](\A i \in Invocations :
            pc[i] # "idle" =>
                /\ input[i] = OwnInput(i)
                /\ calls[i] # <<>> =>
                    /\ built[i] = OwnBuilt(i)
                    /\ calls[i][1] = PostRequest(OwnBuilt(i).endpoint, OwnBuilt(i).payload)
                /\ Truthy(jobId[i]) => jobId[i] = OwnJobId(i)
                /\ \A k \in 1..Len(calls[i]) :
                       calls[i][k].method = "GET" => calls[i][k] = GetRequest(OwnJobId(i))
                /\ GetCalls(i) # <<>> =>
                       deadline[i] = loopStart[i] + OwnInput(i).timeout_ms
                /\ pc[i] = "returned" => result[i] = OwnResult(i))
    /\ [][\A i, j \in Invocations :
            (i # j /\ Local(i)' # Local(i)) => Local(j)' = Local(j)]_vars

C20_Witness ==
    /\ pc[1] = "sleeping"
    /\ pc[2] = "returned"
    /\ GetCalls(2) # <<>>
    /\ tool[1] # tool[2]
    /\ jobId[1] # jobId[2]
    /\ loopStart[2] > loopStart[1]
    /\ deadline[2] > now

\* the value the invocation's last settled HTTP request returned
LastResponse(i) == request(settled[i].outcome).value

\* the invocation returned through the poller
ReturnedFromPoller(i) == pc[i] = "returned" /\ ShouldWait(input[i])

\* C21: in the outcome the poller returns, the raw response is the HTTP
\* response the returned job record was taken from: the create response
\* when the job was terminal at creation, else the getJob response that
\* reported the terminal status.
C21_OutcomeProvenance ==
    \A i \in Invocations :
        ReturnedFromPoller(i) =>
            /\ result[i].structuredContent.final_job = pickJob(LastResponse(i))
            /\ result[i].structuredContent.final_job_response = LastResponse(i)
            /\ GetCalls(i) = <<>> => LastResponse(i) = createResponse[i]

\* the half of C21 about polling: the raw response is the last getJob response
C21_PolledProvenance ==
    \A i \in Invocations :
        (ReturnedFromPoller(i) /\ GetCalls(i) # <<>>) =>
            /\ settled[i].op = "GET"
            /\ result[i].structuredContent.final_job = pickJob(LastResponse(i))
            /\ result[i].structuredContent.final_job_response = LastResponse(i)

\* a job terminal at creation whose create response is the bare job record
C21_BareTerminalCreate ==
    \E i \in Invocations :
        /\ ReturnedFromPoller(i)
        /\ GetCalls(i) = <<>>
        /\ createResponse[i] = CreateCompleted
        /\ result[i].structuredContent.final_job_response = JObj([job |-> CreateCompleted])

\* the required fields of a model, as a set
RequiredOf(model) == {model.requiredFields[k] : k \in 1..Len(model.requiredFields)}

\* C22: for a catalog model and an input that validateInputByModel accepts,
\* the payload has the prompt, a width and a height when the model requires
\* them (the explicit value, else the size string's, else the model's
\* default), a non-empty referenceImages list when required, an imageUrl
\* when required, and every fixedPayload entry of the model unchanged.
C22_RequiredFieldsInPayload ==
    (fn = "generate" /\ out.done /\ out.error = NoError) =>
        LET model == KREA_IMAGE_MODELS[arg.model]
            payload == out.payload
        IN  /\ "prompt" \in DOMAIN payload /\ payload.prompt = arg.prompt
            /\ "width" \in RequiredOf(model) =>
                   /\ "width" \in DOMAIN payload
                   /\ {payload.width} = ExpectedDimension(arg, "width", "defaultWidth")
            /\ "height" \in RequiredOf(model) =>
                   /\ "height" \in DOMAIN payload
                   /\ {payload.height} = ExpectedDimension(arg, "height", "defaultHeight")
            /\ "referenceImages" \in RequiredOf(model) =>
                   /\ "referenceImages" \in DOMAIN payload
                   /\ payload.referenceImages = arg.reference_images
                   /\ Len(payload.referenceImages) > 0
            /\ "imageUrl" \in RequiredOf(model) =>
                   /\ "imageUrl" \in DOMAIN payload
                   /\ payload.imageUrl = arg.image_url
                   /\ payload.imageUrl # ""
            /\ "fixedPayload" \in DOMAIN model =>
                   \A key \in DOMAIN model.fixedPayload :
                       key \in DOMAIN payload /\ payload[key] = model.fixedPayload[key]

C22_Witness ==
    /\ fn = "generate"
    /\ out.done
    /\ out.error = NoError
    /\ arg.model = "runway_gen_4_image"
    /\ "width" \in DOMAIN arg
    /\ "image_url" \notin DOMAIN arg
    /\ out.payload.referenceImages = <<"https://r.test/1.png", "https://r.test/2.png">>
    /\ out.payload.width = 512

\* the other required shapes: a fixed payload, defaulted dimensions, an image url
C22_OtherModels ==
    /\ fn = "generate"
    /\ out.done
    /\ out.error = NoError
    /\ \/ arg.model = "seedream_3" /\ out.payload.model = "seedream-3"
       \/ arg.model = "zimage" /\ DOMAIN arg = {"model", "prompt"}
       \/ arg.model = "seededit_3" /\ out.payload.imageUrl = "https://u.test/in.png"

\* ceil(a / b) for positive b
CeilDiv(a, b) == (a + b - 1) \div b

\* the positions in the invocation's calls that hold a getJob call
GetPositions(i) == {k \in 1..Len(calls[i]) : calls[i][k].method = "GET"}

\* C23: one poller run issues at most ceil(timeoutMs / pollIntervalMs)
\* getJob calls; between two consecutive getJob calls there is exactly one
\* sleep, every sleep is of the same pollIntervalMs, and a timeout failure
\* comes only after at least one getJob call.
C23_PollCount ==
    \A i \in Invocations :
        pc[i] # "idle" =>
            /\ Len(GetCalls(i)) <= CeilDiv(input[i].timeout_ms, input[i].poll_interval_ms)
            /\ \A k \in GetPositions(i) :
                   (\E j \in GetPositions(i) : j < k) =>
                       /\ calls[i][k - 1] = SleepCall(input[i].poll_interval_ms)
                       /\ k - 2 \in GetPositions(i)
            /\ \A k \in 1..Len(calls[i]) :
                   calls[i][k].method = "sleep" =>
                       calls[i][k].ms = input[i].poll_interval_ms
            /\ Len(SleepCalls(i)) <= Len(GetCalls(i))
            /\ (pc[i] = "failed" /\ IsTimeout(err[i])) => GetCalls(i) # <<>>

\* the poller reaches the ceiling and then times out
C23_Witness ==
    \E i \in Invocations :
        /\ pc[i] = "failed"
        /\ IsTimeout(err[i])
        /\ input[i].timeout_ms = 5000
        /\ input[i].poll_interval_ms = DEFAULT_POLL_INTERVAL_MS
        /\ Len(GetCalls(i)) = 3
        /\ Len(SleepCalls(i)) = 3

\* the positions in the invocation's calls that hold a create POST
PostPositions(i) == {k \in 1..Len(calls[i]) : calls[i][k].method = "POST"}

\* the job id read off a create response: its job record's string id, else
\* its string job_id
CreatedJobId(response) ==
    LET job == JobRecord(response)
        idOf(name) == IF job.t = "object" /\ name \in DOMAIN job.o
                         /\ job.o[name].t = "string"
                      THEN job.o[name] ELSE Undef
    IN  IF idOf("id") # Undef THEN idOf("id") ELSE idOf("job_id")

\* C24: an invocation issues at most one create POST, as its first call and
\* only after its builder accepted the input, with the built endpoint and
\* payload; getJob calls come only once that POST has returned and a job id
\* was extracted from its response, and each targets that id; and the
\* payload_sent of the result is the payload that was posted.
C24_CallOrder ==
    \A i \in Invocations :
        /\ PostPositions(i) \subseteq {1}
        /\ calls[i] # <<>> =>
               /\ pc[i] # "idle"
               /\ built[i].ok
               /\ built[i] = Build(tool[i], input[i])
               /\ calls[i][1] = PostRequest(built[i].endpoint, built[i].payload)
        /\ pc[i] = "awaitPost" => Len(calls[i]) = 1 /\ createResponse[i] = Undef
        /\ GetPositions(i) # {} =>
               /\ createResponse[i] # Undef
               /\ jobId[i] = CreatedJobId(createResponse[i])
               /\ jobId[i].t = "string" /\ jobId[i].s # <<>>
               /\ \A k \in GetPositions(i) : calls[i][k] = GetRequest(jobId[i])
        /\ pc[i] = "returned" =>
               /\ PostPositions(i) = {1}
               /\ createResponse[i] # Undef
               /\ result[i].structuredContent.job_id = CreatedJobId(createResponse[i])
               /\ result[i].structuredContent.payload_sent = built[i].payload
               /\ JsonTextOf(result[i].structuredContent.payload_sent) = calls[i][1].body

\* an upscale invocation that posted, polled twice and returned
C24_Witness ==
    \E i \in Invocations :
        /\ pc[i] = "returned"
        /\ tool[i] = "krea_upscale_image"
        /\ Len(GetCalls(i)) = 2
        /\ jobId[i] = Id2
        /\ calls[i][2] = GetRequest(Id2)
        /\ result[i].structuredContent.payload_sent = built[i].payload
        /\ "timeout_ms" \in DOMAIN input[i]
        /\ "timeout_ms" \notin DOMAIN built[i].payload

====
